---- MODULE Spec2Model ----
(***************************************************************************)
(* A model of the data scripts of bart-transit-equity-full.               *)
(*                                                                         *)
(* Each script is a single linear run.  The variable `script` says which  *)
(* script the run executes, `pc` where the run stands.  What the remote    *)
(* servers and the file system answer is the environment's choice.        *)
(*                                                                         *)
(* Geographic identifiers are strings of decimal digits.  They are         *)
(* modelled as sequences of digits, so that Python's slice s[:n] is        *)
(* computed, not assumed.                                                  *)
(*                                                                         *)
(* A float is modelled as an exact rational [k, n, d] (k = "fin", value    *)
(* n/d, d > 0) or as one of numpy's non-finite values (k = "nan", "inf",   *)
(* "-inf").                                                                *)
(***************************************************************************)
EXTENDS Integers, Sequences, FiniteSets, TLC

VARIABLES
    script,       \* which script this run executes
    pc,           \* the position of the run in the script
    log,          \* what the run has done so far: requests, stages, failures, messages
    exit_status,  \* <<>> while running, <<code>> once the process has exited
    written,      \* the output files written so far, in the order written
    allow_list,   \* the list the name berkeley_tracts is bound to (<<>> before its assignment)
    year,         \* fetch_lodes: the argument of the call in progress, or of the last call
    fileRows,     \* fetch_lodes: the rows the reader has delivered in that call
    more,         \* fetch_lodes: the reader may deliver another chunk
    chunks,       \* fetch_lodes: the local list `chunks` of that call
    df,           \* df_2019 / df_2021 (berkeley_2019 / berkeley_2021 are the same objects)
    job_change,   \* the `Change` percentage of the jobs summary
    results,      \* results_2019 / results_2021, with the percentage printed beside them
    loss,         \* commuters_lost, its percentage and transit_commuters_lost
    origins,      \* top_origins: the county totals and the lines printed, per year
    bg_df,        \* block groups: the table df of the Census answer, with the derived columns
    bg_geo,       \* block groups: the table bg_geo of the TIGER shapes
    berkeley_bg,  \* block groups: the table berkeley_bg
    tracts_geo,   \* block groups: the number of features read from the tracts file
    stations,     \* station map: the table stations
    trips,        \* route map: the table trips of trips.txt
    berkeley_route_ids,  \* route map: the route ids of the trips serving Berkeley stops
    route_pos,    \* route map: the place of the route loop in berkeley_route_ids[:30]
    plotted_shapes,      \* route map: the set plotted_shapes
    fig,          \* route map: the route traces added to the figure, in order
    returners_former_transit,  \* returner analysis: <<>> before line 15, then <<the value>>
    frames,       \* animation: the list frames
    frame_pos,    \* animation: the place of the frame loop in years
    anim_fig,     \* animation: the figure: its traces, its frames and its slider
    wfh_data,     \* remote work: the table wfh_data, <<>> before line 15
    wfh_fig       \* remote work: <<>> before line 48, then <<the figure>>

lehdVars == <<year, fileRows, more, chunks, df, job_change, results, loss, origins>>
bgVars == <<bg_df, bg_geo, berkeley_bg, tracts_geo>>
stationVars == <<stations>>
acVars == <<trips, berkeley_route_ids, route_pos, plotted_shapes, fig>>
returnerVars == <<returners_former_transit>>
animVars == <<frames, frame_pos, anim_fig>>
wfhVars == <<wfh_data, wfh_fig>>

vars == <<script, pc, log, exit_status, written, allow_list, lehdVars, bgVars, stationVars,
          acVars, returnerVars, animVars, wfhVars>>

-----------------------------------------------------------------------------
(* Bounds of the model *)

\* rows a LEHD file holds at most
MaxFileRows == 2
\* chunksize of the reader: 100000 in the script, scaled down with the files
chunk_size == 1

-----------------------------------------------------------------------------
(* Strings, lists, numbers *)

StrSuffix(s, n) == SubSeq(s, (IF Len(s) < n THEN 0 ELSE Len(s) - n) + 1, Len(s))
PaddedPrefix(s, n) ==
    IF Len(s) < n THEN s \o [i \in 1..(n - Len(s)) |-> 0] ELSE SubSeq(s, 1, n)
\* s[:n]
StrPrefix(s, n) == SubSeq(s, 1, IF Len(s) < n THEN Len(s) ELSE n)

PrefixIsin(x, list) ==
    \E i \in 1..Len(list) : Len(x) <= Len(list[i]) /\ SubSeq(list[i], 1, Len(x)) = x
\* Series.isin(list), for one value: equal to some entry
Isin(x, list) == \E i \in 1..Len(list) : list[i] = x

LastChunkOnly(cs) == IF cs = <<>> THEN <<>> ELSE cs[Len(cs)]
RECURSIVE Concat(_)
\* pd.concat(chunks, ignore_index=True)
Concat(cs) == IF cs = <<>> THEN <<>> ELSE Head(cs) \o Concat(Tail(cs))

FirstS000(t) == IF t = <<>> THEN 0 ELSE Head(t).S000
RECURSIVE SumS000(_)
\* df['S000'].sum()
SumS000(t) == IF t = <<>> THEN 0 ELSE Head(t).S000 + SumS000(Tail(t))

Fin(n, d) == [k |-> "fin", n |-> n, d |-> d]
NaN == [k |-> "nan", n |-> 0, d |-> 1]
PosInf == [k |-> "inf", n |-> 0, d |-> 1]
NegInf == [k |-> "-inf", n |-> 0, d |-> 1]
\* the Python int 0 of `... if total > 0 else 0`
Zero == Fin(0, 1)

\* a / b for two numpy integers: no exception, a warning and inf or nan when b = 0
NpDiv(a, b) ==
    IF b # 0 THEN (IF b > 0 THEN Fin(a, b) ELSE Fin(-a, -b))
    ELSE IF a = 0 THEN NaN
    ELSE IF a > 0 THEN PosInf ELSE NegInf

\* x * c for a float x and an integer c > 0
FTimes(x, c) == IF x.k = "fin" THEN Fin(x.n * c, x.d) ELSE x

\* x - c for a float x and an integer c
FMinus(x, c) == IF x.k = "fin" THEN Fin(x.n - c * x.d, x.d) ELSE x

\* c - x for an integer c and a float x
FRMinus(c, x) ==
    IF x.k = "fin" THEN Fin(c * x.d - x.n, x.d)
    ELSE IF x.k = "inf" THEN NegInf
    ELSE IF x.k = "-inf" THEN PosInf ELSE x

\* the nearest integer to n / d (d > 0), halves to the even one: numpy's round
RoundHalfEven(n, d) ==
    LET q == n \div d
        r == n - q * d
    IN  IF 2 * r < d THEN q
        ELSE IF 2 * r > d THEN q + 1
        ELSE IF q % 2 = 0 THEN q ELSE q + 1

RECURSIVE Pow10(_)
Pow10(e) == IF e = 0 THEN 1 ELSE 10 * Pow10(e - 1)

\* Series.round(decimals); nan and inf stay what they are
Round(x, decimals) ==
    IF x.k = "fin"
    THEN Fin(RoundHalfEven(x.n * Pow10(decimals), x.d), Pow10(decimals))
    ELSE x

\* int(a * 0.13) for an integer a: truncation towards zero
IntOfShare(a, hundredths) ==
    IF a >= 0 THEN (a * hundredths) \div 100 ELSE -(((-a) * hundredths) \div 100)

-----------------------------------------------------------------------------
(* fetch_lehd_commute_data.py *)

YEAR_PRE == "2019"
YEAR_POST == "2021"
Years == {YEAR_PRE, YEAR_POST}

\* Berkeley city tract codes
berkeley_tracts ==
    << <<0,6,0,0,1,4,0,0,5,0,0>>, <<0,6,0,0,1,4,0,0,7,0,0>>,
       <<0,6,0,0,1,4,2,1,8,0,0>>, <<0,6,0,0,1,4,2,1,9,0,0>>,
       <<0,6,0,0,1,4,2,2,2,0,0>>, <<0,6,0,0,1,4,2,2,3,0,0>>,
       <<0,6,0,0,1,4,2,2,4,0,0>>, <<0,6,0,0,1,4,2,2,5,0,0>>,
       <<0,6,0,0,1,4,2,2,8,0,0>>, <<0,6,0,0,1,4,2,2,9,0,1>>,
       <<0,6,0,0,1,4,2,3,0,0,0>>, <<0,6,0,0,1,4,2,3,1,0,0>>,
       <<0,6,0,0,1,4,2,3,4,0,0>>, <<0,6,0,0,1,4,2,3,5,0,0>>,
       <<0,6,0,0,1,4,2,3,6,0,1>>, <<0,6,0,0,1,4,2,3,6,0,2>>,
       <<0,6,0,0,1,4,2,3,9,0,1>>, <<0,6,0,0,1,4,2,3,9,0,2>>,
       <<0,6,0,0,1,4,2,4,0,0,1>> >>

BlockGroupWidth == 11 + 1
\* the width of a tract code: the 11 of .str[:11]
TractWidth == 11
\* the width of a state + county code: the 5 of .str[:5]
CountyWidth == 5
\* the assumed transit mode share, in hundredths: the 0.13 of commuters_lost * 0.13
TransitShare == 13

\* The rows a LEHD file may hold: flow records (workplace block, home block, job
\* count >= 0).
\*   "06001400500001" <- "06075012345001", 5 jobs: works in Berkeley, lives in San Francisco
\*   "06001400500001" <- "06001400500002", 3 jobs: lives and works in the same tract
\*   "06001999999001" <- "06001422200001", 2 jobs: lives in Berkeley, works elsewhere
\*   "06001422901003" <- "0607",           0 jobs: a home identifier shorter than the widths
\*   "0600140050"     <- "0607",           4 jobs: a workplace identifier shorter than the
\*                                                 width, the beginning of a listed tract
LodesRows ==
    { [w_geocode |-> <<0,6,0,0,1,4,0,0,5,0,0,0,0,1>>,
       h_geocode |-> <<0,6,0,7,5,0,1,2,3,4,5,0,0,1>>, S000 |-> 5],
      [w_geocode |-> <<0,6,0,0,1,4,0,0,5,0,0,0,0,1>>,
       h_geocode |-> <<0,6,0,0,1,4,0,0,5,0,0,0,0,2>>, S000 |-> 3],
      [w_geocode |-> <<0,6,0,0,1,9,9,9,9,9,9,0,0,1>>,
       h_geocode |-> <<0,6,0,0,1,4,2,2,2,0,0,0,0,1>>, S000 |-> 2],
      [w_geocode |-> <<0,6,0,0,1,4,2,2,9,0,1,0,0,3>>,
       h_geocode |-> <<0,6,0,7>>, S000 |-> 0],
      [w_geocode |-> <<0,6,0,0,1,4,0,0,5,0>>,
       h_geocode |-> <<0,6,0,7>>, S000 |-> 4] }

\* The chunks the reader may deliver next: 1..chunk_size rows, within the file's bound
LodesChunks(room) ==
    UNION { [1..n -> LodesRows] :
            n \in 1..(IF room < chunk_size THEN room ELSE chunk_size) }

\* df[col] = values: the row with the new column, or with the column overwritten
WithColumn(r, col, value) == (col :> value) @@ r

\* chunk['w_tract'] = chunk['w_geocode'].str[:11]
WithWTract(chunk) ==
    [i \in 1..Len(chunk) |->
        WithColumn(chunk[i], "w_tract", StrPrefix(chunk[i].w_geocode, TractWidth))]

UnfilteredChunk(chunk) == WithWTract(chunk)
RepeatingChunk(chunk) ==
    SelectSeq(WithWTract(chunk), LAMBDA r : Isin(r.w_tract, allow_list))
        \o SelectSeq(WithWTract(chunk), LAMBDA r : Isin(r.w_tract, allow_list))
\* berkeley_chunk = chunk[chunk['w_tract'].isin(berkeley_tracts)]
BerkeleyChunk(chunk) ==
    SelectSeq(WithWTract(chunk), LAMBDA r : Isin(r.w_tract, allow_list))

KeepAnyChunk(cs, berkeley_chunk) == Append(cs, berkeley_chunk)
\* lines 60-61: if len(berkeley_chunk) > 0: chunks.append(berkeley_chunk)
KeepChunk(cs, berkeley_chunk) ==
    IF Len(berkeley_chunk) > 0 THEN Append(cs, berkeley_chunk) ELSE cs

\* a table, or None
NoneDF == [none |-> TRUE, rows |-> <<>>]
SomeDF(t) == [none |-> FALSE, rows |-> t]

EmptyTableReturn(cs) == SomeDF(Concat(cs))
\* lines 63-69: the table of all the chunks kept, or None when none was kept
ReturnOfLoop(cs) == IF cs # <<>> THEN SomeDF(Concat(cs)) ELSE NoneDF

PartialReturn(cs) == ReturnOfLoop(cs)
\* lines 71-73: the except branch returns None
ReturnOfExcept(cs) == NoneDF

\* df['h_tract'] = df['h_geocode'].str[:11]
WithHTract(t) ==
    [i \in 1..Len(t) |-> WithColumn(t[i], "h_tract", StrPrefix(t[i].h_geocode, TractWidth))]

\* the Change percentage of the jobs summary: (sum_2021 / sum_2019 - 1) * 100
JobChange(t19, t21) == FTimes(FMinus(NpDiv(SumS000(t21), SumS000(t19)), 1), 100)

UnguardedPct(commute_in, total) == FTimes(NpDiv(commute_in, total), 100)
\* (commute_in / total * 100) if total > 0 else 0
PctCommuteIn(commute_in, total) ==
    IF total > 0 THEN FTimes(NpDiv(commute_in, total), 100) ELSE Zero

CommuteInNotNegated(t, y) ==
    LET same_tract == SumS000(SelectSeq(t, LAMBDA r : r.h_tract = r.w_tract))
        live_work_berkeley ==
            SumS000(SelectSeq(t, LAMBDA r : Isin(r.h_tract, allow_list)))
        commute_in ==
            SumS000(SelectSeq(t, LAMBDA r : Isin(r.h_tract, allow_list)))
        total == SumS000(t)
    IN  [year |-> y,
         total_jobs |-> total,
         same_tract |-> same_tract,
         live_work_berkeley |-> live_work_berkeley,
         commute_in |-> commute_in,
         pct_commute_in |-> PctCommuteIn(commute_in, total)]

LiveWorkNotListed(t, y) ==
    LET same_tract == SumS000(SelectSeq(t, LAMBDA r : r.h_tract = r.w_tract))
        live_work_berkeley ==
            SumS000(SelectSeq(t, LAMBDA r : ~Isin(r.h_tract, allow_list)))
        commute_in ==
            SumS000(SelectSeq(t, LAMBDA r : ~Isin(r.h_tract, allow_list)))
        total == SumS000(t)
    IN  [year |-> y,
         total_jobs |-> total,
         same_tract |-> same_tract,
         live_work_berkeley |-> live_work_berkeley,
         commute_in |-> commute_in,
         pct_commute_in |-> PctCommuteIn(commute_in, total)]

\* analyze_commutes(df, year)
analyze_commutes(t, y) ==
    LET same_tract == SumS000(SelectSeq(t, LAMBDA r : r.h_tract = r.w_tract))
        live_work_berkeley ==
            SumS000(SelectSeq(t, LAMBDA r : Isin(r.h_tract, allow_list)))
        commute_in ==
            SumS000(SelectSeq(t, LAMBDA r : ~Isin(r.h_tract, allow_list)))
        total == SumS000(t)
    IN  [year |-> y,
         total_jobs |-> total,
         same_tract |-> same_tract,
         live_work_berkeley |-> live_work_berkeley,
         commute_in |-> commute_in,
         pct_commute_in |-> PctCommuteIn(commute_in, total)]

\* the percentage printed beside live_work_berkeley: live_work_berkeley / total_jobs * 100
PctLiveWork(res) == FTimes(NpDiv(res.live_work_berkeley, res.total_jobs), 100)

\* lines 144-154
CommuterLoss(r19, r21) ==
    LET commuters_lost == r19.commute_in - r21.commute_in
    IN  [commuters_lost |-> commuters_lost,
         pct |-> FTimes(NpDiv(commuters_lost, r19.commute_in), 100),
         transit_commuters_lost |-> IntOfShare(commuters_lost, TransitShare)]

\* the n of top_origins(df, year, n=10)
TopN == 10

\* df['h_county'] = df['h_geocode'].str[:5]
WithHCounty(t) ==
    [i \in 1..Len(t) |-> WithColumn(t[i], "h_county", StrPrefix(t[i].h_geocode, CountyWidth))]

\* one group of df.groupby('h_county')['S000'].sum()
CountyTotal(t, c) == SumS000(SelectSeq(t, LAMBDA r : r.h_county = c))

\* The orders .sort_values(ascending=False) may leave the groups in: non-increasing
\* totals; the sort is not stable, so equal totals come in either order
CountyOrders(t) ==
    LET keys == { t[i].h_county : i \in 1..Len(t) }
        n == Cardinality(keys)
    IN  { o \in [1..n -> keys] :
            /\ \A i, j \in 1..n : i # j => o[i] # o[j]
            /\ \A i, j \in 1..n : i < j => CountyTotal(t, o[i]) >= CountyTotal(t, o[j]) }

\* county_names.get(county_code, f"County {county_code}")
CountyName(c) ==
    CASE c = <<0,6,0,0,1>> -> <<"Alameda County (includes Berkeley)">>
      [] c = <<0,6,0,1,3>> -> <<"Contra Costa County">>
      [] c = <<0,6,0,7,5>> -> <<"San Francisco County">>
      [] c = <<0,6,0,8,1>> -> <<"San Mateo County">>
      [] c = <<0,6,0,8,5>> -> <<"Santa Clara County">>
      [] c = <<0,6,0,9,7>> -> <<"Sonoma County">>
      [] c = <<0,6,0,9,5>> -> <<"Solano County">>
      [] OTHER -> <<"County ", c>>

\* top_origins(df, year, n): the sorted totals and the lines printed for the first n
TopOriginsOf(t, order, n) ==
    LET shown == IF Len(order) < n THEN Len(order) ELSE n
    IN  [county_totals |->
             [i \in 1..Len(order) |-> [h_county |-> order[i], jobs |-> CountyTotal(t, order[i])]],
         printed |->
             [i \in 1..shown |->
                 [name |-> CountyName(order[i]),
                  jobs |-> CountyTotal(t, order[i]),
                  pct |-> FTimes(NpDiv(CountyTotal(t, order[i]), SumS000(t)), 100)]]]

-----------------------------------------------------------------------------
(* The run's trace *)

Ev(kind, what) == [ev |-> kind, what |-> what]

EXIT_MISTAKEN == 1 - 1
\* the status of exit(1)
EXIT_FAILURE == 1

\* an uncaught exception: the interpreter prints the traceback and exits with status 1
Crash(where) ==
    /\ log' = log \o << Ev("error", where), Ev("message", <<"Traceback">>), Ev("exit", <<1>>) >>
    /\ exit_status' = <<1>>
    /\ pc' = "exited"

-----------------------------------------------------------------------------
(* fetch_lehd_commute_data.py: the run *)

LodesUrl(y) == <<"https://lehd.ces.census.gov/data/lodes/LODES8/ca/od/ca_od_main_JT00_", y, ".csv.gz">>

RepeatedFetchYear == YEAR_PRE
\* the year of the second call: df_2021 = fetch_lodes(YEAR_POST)
SecondFetchYear == YEAR_POST

\* the variable the call in progress assigns: df_2019 (the first call) or df_2021
Target == IF pc \in {"call1", "loop1"} THEN YEAR_PRE ELSE YEAR_POST

\* where the run goes when the call returns: to the second call, or to the check
AfterFetch == IF pc \in {"call1", "loop1"} THEN "call2" ELSE "check"

\* fetch_lodes(year), lines 45-55: the reader opens the URL and the server answers
LodesOpen ==
    /\ script = "lehd"
    /\ pc \in {"call1", "call2"}
    /\ LET y == IF pc = "call1" THEN YEAR_PRE ELSE SecondFetchYear
       IN  /\ year' = y
           /\ log' = Append(log, Ev("request", LodesUrl(y)))
    /\ chunks' = <<>>
    /\ fileRows' = <<>>
    /\ more' = TRUE
    /\ pc' = IF pc = "call1" THEN "loop1" ELSE "loop2"
    /\ UNCHANGED <<animVars, wfhVars, acVars, returnerVars, bgVars, stationVars, script, allow_list, exit_status, written, df, job_change, results, loss, origins>>

\* fetch_lodes(year), lines 45-55 and 71-73: the request fails (no connection, a
\* non-success status); the except branch prints the error and returns None
LodesOpenFails ==
    /\ script = "lehd"
    /\ pc \in {"call1", "call2"}
    /\ LET y == IF pc = "call1" THEN YEAR_PRE ELSE SecondFetchYear
       IN  /\ year' = y
           /\ log' = log \o << Ev("request", LodesUrl(y)),
                               Ev("error", <<"fetch_lodes", y>>),
                               Ev("message", <<"Error">>) >>
    /\ chunks' = <<>>
    /\ fileRows' = <<>>
    /\ more' = FALSE
    /\ df' = [df EXCEPT ![Target] = ReturnOfExcept(<<>>)]
    /\ pc' = AfterFetch
    /\ UNCHANGED <<animVars, wfhVars, acVars, returnerVars, bgVars, stationVars, script, allow_list, exit_status, written, job_change, results, loss, origins>>

\* lines 55-61: one turn of the loop; the reader delivers the next chunk (a chunk
\* shorter than chunk_size is the file's last)
LodesChunk ==
    /\ script = "lehd"
    /\ pc \in {"loop1", "loop2"}
    /\ more
    /\ Len(fileRows) < MaxFileRows
    /\ \E chunk \in LodesChunks(MaxFileRows - Len(fileRows)) :
         LET berkeley_chunk == BerkeleyChunk(chunk)
         IN  /\ fileRows' = fileRows \o chunk
             /\ more' = (Len(chunk) = chunk_size)
             /\ chunks' = KeepChunk(chunks, berkeley_chunk)
    /\ log' = Append(log, Ev("filter", <<"fetch_lodes", year>>))
    /\ UNCHANGED <<animVars, wfhVars, acVars, returnerVars, bgVars, stationVars, script, allow_list, pc, exit_status, written, year, df, job_change, results, loss, origins>>

\* lines 55 and 71-73: the reader raises on the next chunk (a malformed payload); the
\* except branch prints the error and returns None
LodesChunkFails ==
    /\ script = "lehd"
    /\ pc \in {"loop1", "loop2"}
    /\ more
    /\ more' = FALSE
    /\ log' = log \o << Ev("error", <<"fetch_lodes", year>>), Ev("message", <<"Error">>) >>
    /\ df' = [df EXCEPT ![Target] = ReturnOfExcept(chunks)]
    /\ pc' = AfterFetch
    /\ UNCHANGED <<animVars, wfhVars, acVars, returnerVars, bgVars, stationVars, script, allow_list, exit_status, written, year, fileRows, chunks, job_change, results, loss, origins>>

\* lines 63-69: the reader is exhausted; the call returns the kept rows, or None
LodesReturn ==
    /\ script = "lehd"
    /\ pc \in {"loop1", "loop2"}
    /\ more' = FALSE
    /\ df' = [df EXCEPT ![Target] = ReturnOfLoop(chunks)]
    /\ log' = Append(log, Ev("message", IF chunks # <<>> THEN <<"Found">> ELSE <<"No Berkeley jobs found">>))
    /\ pc' = AfterFetch
    /\ UNCHANGED <<animVars, wfhVars, acVars, returnerVars, bgVars, stationVars, script, allow_list, exit_status, written, year, fileRows, chunks, job_change, results, loss, origins>>

\* df_2019 is None or df_2021 is None
AnyFailed == df[YEAR_PRE].none \/ df[YEAR_POST].none

\* lines 87-89: a missing table ends the run (what the last call of fetch_lodes left
\* behind is gone by now)
LehdFailureExit ==
    /\ script = "lehd"
    /\ pc = "check"
    /\ AnyFailed
    /\ log' = log \o << Ev("message", <<"Failed to fetch LEHD data">>), Ev("exit", <<EXIT_FAILURE>>) >>
    /\ exit_status' = <<EXIT_FAILURE>>
    /\ pc' = "exited"
    /\ fileRows' = <<>> /\ chunks' = <<>>
    /\ UNCHANGED <<animVars, wfhVars, acVars, returnerVars, bgVars, stationVars, script, allow_list, written, year, more, df, job_change, results, loss, origins>>

\* lines 91-105: the home tract column, and the jobs summary (what the last call of
\* fetch_lodes left behind is gone by now)
LehdJobsSummary ==
    /\ script = "lehd"
    /\ pc = "check"
    /\ ~AnyFailed
    /\ df' = [y \in Years |-> SomeDF(WithHTract(df[y].rows))]
    /\ job_change' = <<JobChange(df[YEAR_PRE].rows, df[YEAR_POST].rows)>>
    /\ log' = Append(log, Ev("metrics", <<"jobs summary">>))
    /\ pc' = "analyze"
    /\ fileRows' = <<>> /\ chunks' = <<>>
    /\ UNCHANGED <<animVars, wfhVars, acVars, returnerVars, bgVars, stationVars, script, allow_list, exit_status, written, year, more, results, loss, origins>>

\* lines 130-155: analyze_commutes for both years, the pattern and the loss printed
LehdAnalyze ==
    /\ script = "lehd"
    /\ pc = "analyze"
    /\ LET res == [y \in Years |-> analyze_commutes(df[y].rows, y)]
       IN  /\ results' = [y \in Years |-> <<[res |-> res[y], pct_live_work |-> PctLiveWork(res[y])]>>]
           /\ loss' = <<CommuterLoss(res[YEAR_PRE], res[YEAR_POST])>>
    /\ log' = Append(log, Ev("metrics", <<"analyze_commutes">>))
    /\ pc' = "origins1"
    /\ UNCHANGED <<animVars, wfhVars, acVars, returnerVars, bgVars, stationVars, script, allow_list, exit_status, written, year, fileRows, more, chunks, df, job_change, origins>>

\* lines 183 and 188: top_origins(berkeley_2019, YEAR_PRE), top_origins(berkeley_2021, YEAR_POST)
LehdTopOrigins ==
    /\ script = "lehd"
    /\ pc \in {"origins1", "origins2"}
    /\ LET y == IF pc = "origins1" THEN YEAR_PRE ELSE YEAR_POST
           t == WithHCounty(df[y].rows)
       IN  /\ df' = [df EXCEPT ![y] = SomeDF(t)]
           /\ \E order \in CountyOrders(t) :
                origins' = [origins EXCEPT ![y] = <<TopOriginsOf(t, order, TopN)>>]
           /\ log' = Append(log, Ev("metrics", <<"top_origins", y>>))
    /\ pc' = IF pc = "origins1" THEN "origins2" ELSE "save1"
    /\ UNCHANGED <<animVars, wfhVars, acVars, returnerVars, bgVars, stationVars, script, allow_list, exit_status, written, year, fileRows, more, chunks, job_change, results, loss>>

LehdFile(y) == <<"data/lehd/berkeley_jobs_", y, ".csv">>

\* lines 194-195: berkeley_2019.to_csv(output_2019), berkeley_2021.to_csv(output_2021)
LehdSave ==
    /\ script = "lehd"
    /\ pc \in {"save1", "save2"}
    /\ LET y == IF pc = "save1" THEN YEAR_PRE ELSE YEAR_POST
       IN  /\ written' = Append(written, [file |-> LehdFile(y), rows |-> df[y].rows])
           /\ log' = Append(log, Ev("write", LehdFile(y)))
    /\ pc' = IF pc = "save1" THEN "save2" ELSE "summary"
    /\ UNCHANGED <<animVars, wfhVars, acVars, returnerVars, bgVars, stationVars, script, allow_list, exit_status, year, fileRows, more, chunks, df, job_change, results, loss, origins>>

\* lines 194-195: the file cannot be written; the exception is not caught
LehdSaveFails ==
    /\ script = "lehd"
    /\ pc \in {"save1", "save2"}
    /\ Crash(<<"to_csv", IF pc = "save1" THEN YEAR_PRE ELSE YEAR_POST>>)
    /\ UNCHANGED <<animVars, wfhVars, acVars, returnerVars, bgVars, stationVars, script, allow_list, written, year, fileRows, more, chunks, df, job_change, results, loss, origins>>

\* lines 197-226: the findings are printed and the script ends
LehdEnd ==
    /\ script = "lehd"
    /\ pc = "summary"
    /\ log' = Append(log, Ev("exit", <<0>>))
    /\ exit_status' = <<0>>
    /\ pc' = "exited"
    /\ UNCHANGED <<animVars, wfhVars, acVars, returnerVars, bgVars, stationVars, script, allow_list, written, year, fileRows, more, chunks, df, job_change, results, loss, origins>>

LehdNext ==
    \/ LodesOpen \/ LodesOpenFails \/ LodesChunk \/ LodesChunkFails \/ LodesReturn
    \/ LehdFailureExit \/ LehdJobsSummary \/ LehdAnalyze \/ LehdTopOrigins
    \/ LehdSave \/ LehdSaveFails \/ LehdEnd

-----------------------------------------------------------------------------
(* data/fetch_block_group_data.py *)

\* rows the Census answer and the TIGER file hold at most
MaxBlockGroups == 2

\* the width of tract_num: the 4 of .str[:4]
TractNumWidth == 4

\* f'{i:03d}' for 0 <= i < 1000
Pad3(i) == << i \div 100, (i \div 10) % 10, i % 10 >>

\* berkeley_tracts = [f'4{i:03d}' for i in range(220, 241)]
bg_berkeley_tracts == [k \in 1..(241 - 220) |-> <<4>> \o Pad3(220 + k - 1)]

\* The rows the Census API may answer with: a block group of Alameda County with its
\* counts (the columns no derived variable reads are left out).
\*   tract 400500: 100 households, 5 + 15 without vehicle
\*   tract 999999:  50 households, 0 + 10 without vehicle, everybody unemployed
\*   tract 422200: nobody lives there: every count is 0
\*   tract 423601: every household without vehicle, everybody a student
CensusRows ==
    { [state |-> <<0,6>>, county |-> <<0,0,1>>, tract |-> <<4,0,0,5,0,0>>, block_group |-> <<1>>,
       total_population |-> 100, college_grad_enrollment |-> 10, total_households |-> 100,
       no_vehicle_owner |-> 5, no_vehicle_renter |-> 15, in_labor_force |-> 50, unemployed |-> 5],
      [state |-> <<0,6>>, county |-> <<0,0,1>>, tract |-> <<9,9,9,9,9,9>>, block_group |-> <<1>>,
       total_population |-> 50, college_grad_enrollment |-> 0, total_households |-> 50,
       no_vehicle_owner |-> 0, no_vehicle_renter |-> 10, in_labor_force |-> 20, unemployed |-> 20],
      [state |-> <<0,6>>, county |-> <<0,0,1>>, tract |-> <<4,2,2,2,0,0>>, block_group |-> <<1>>,
       total_population |-> 0, college_grad_enrollment |-> 0, total_households |-> 0,
       no_vehicle_owner |-> 0, no_vehicle_renter |-> 0, in_labor_force |-> 0, unemployed |-> 0],
      [state |-> <<0,6>>, county |-> <<0,0,1>>, tract |-> <<4,2,3,6,0,1>>, block_group |-> <<2>>,
       total_population |-> 30, college_grad_enrollment |-> 30, total_households |-> 40,
       no_vehicle_owner |-> 20, no_vehicle_renter |-> 20, in_labor_force |-> 30, unemployed |-> 1] }

\* The block groups the TIGER file may hold: the four above, one of Contra Costa County,
\* and one whose TRACTCE "422" is shorter than the width
TigerRows ==
    { [COUNTYFP |-> <<0,0,1>>, TRACTCE |-> <<4,0,0,5,0,0>>, GEOID |-> <<0,6,0,0,1,4,0,0,5,0,0,1>>],
      [COUNTYFP |-> <<0,0,1>>, TRACTCE |-> <<9,9,9,9,9,9>>, GEOID |-> <<0,6,0,0,1,9,9,9,9,9,9,1>>],
      [COUNTYFP |-> <<0,0,1>>, TRACTCE |-> <<4,2,2,2,0,0>>, GEOID |-> <<0,6,0,0,1,4,2,2,2,0,0,1>>],
      [COUNTYFP |-> <<0,0,1>>, TRACTCE |-> <<4,2,3,6,0,1>>, GEOID |-> <<0,6,0,0,1,4,2,3,6,0,1,2>>],
      [COUNTYFP |-> <<0,1,3>>, TRACTCE |-> <<4,2,2,2,0,0>>, GEOID |-> <<0,6,0,1,3,4,2,2,2,0,0,1>>],
      [COUNTYFP |-> <<0,0,1>>, TRACTCE |-> <<4,2,2>>, GEOID |-> <<0,6,0,0,1,4,2,2,1>>] }

\* the tables of at most MaxBlockGroups rows
TablesOf(rows) == UNION { [1..n -> rows] : n \in 0..MaxBlockGroups }

BadPct(num, den, decimals) == Round(FTimes(NpDiv(den, num), 100), decimals)
\* (num / den * 100).round(decimals), for one row
Pct(num, den, decimals) == Round(FTimes(NpDiv(num, den), 100), decimals)

\* lines 62-75, for one row: GEOID and the derived variables
DerivedRow(r) ==
    LET households_no_vehicle == r.no_vehicle_owner + r.no_vehicle_renter
    IN  [GEOID |-> r.state \o r.county \o r.tract \o r.block_group,
         student_population |-> r.college_grad_enrollment,
         pct_students |-> Pct(r.college_grad_enrollment, r.total_population, 2),
         households_no_vehicle |-> households_no_vehicle,
         pct_no_vehicle |-> Pct(households_no_vehicle, r.total_households, 2),
         unemployment_rate |-> Pct(r.unemployed, r.in_labor_force, 2)] @@ r

Derived(t) == [i \in 1..Len(t) |-> DerivedRow(t[i])]

\* the columns of df on a row of bg_geo that no row of df matches
UnmatchedRow ==
    [total_population |-> NaN, college_grad_enrollment |-> NaN, total_households |-> NaN,
     no_vehicle_owner |-> NaN, no_vehicle_renter |-> NaN, in_labor_force |-> NaN,
     unemployed |-> NaN, student_population |-> NaN, pct_students |-> NaN,
     households_no_vehicle |-> NaN, pct_no_vehicle |-> NaN, unemployment_rate |-> NaN]

RECURSIVE MergeLeft(_, _)
\* left.merge(right, on='GEOID', how='left')
MergeLeft(left, right) ==
    IF left = <<>> THEN <<>>
    ELSE LET l == Head(left)
             matches == SelectSeq(right, LAMBDA r : r.GEOID = l.GEOID)
             rows == IF matches = <<>> THEN << l @@ UnmatchedRow >>
                     ELSE [i \in 1..Len(matches) |-> l @@ matches[i]]
         IN  rows \o MergeLeft(Tail(left), right)

\* bg_geo[bg_geo['COUNTYFP'] == '001']
AlamedaOnly(t) == SelectSeq(t, LAMBDA r : r.COUNTYFP = <<0,0,1>>)

\* bg_geo['tract_num'] = bg_geo['TRACTCE'].str[:4]
WithTractNum(t) ==
    [i \in 1..Len(t) |-> WithColumn(t[i], "tract_num", StrPrefix(t[i].TRACTCE, TractNumWidth))]

\* berkeley_bg = bg_geo[bg_geo['tract_num'].isin(berkeley_tracts)]
BerkeleyBlockGroups(t) == SelectSeq(t, LAMBDA r : Isin(r.tract_num, bg_berkeley_tracts))

CensusUrl == <<"https://api.census.gov/data/2021/acs/acs5">>
TigerUrl == <<"https://www2.census.gov/geo/tiger/TIGER2021/BG/tl_2021_06_bg.zip">>
BgCsvFile == <<"data/processed/alameda_block_groups_demographics.csv">>
BgGeoFile == <<"data/processed/berkeley_block_groups_with_demographics.geojson">>
TractsFile == <<"data/processed/berkeley_tracts_with_demographics.geojson">>

\* lines 48-52: the Census API answers with a table
BgCensusFetch ==
    /\ script = "bg"
    /\ pc = "get"
    /\ \E data \in TablesOf(CensusRows) : bg_df' = data
    /\ log' = Append(log, Ev("request", CensusUrl))
    /\ pc' = "derive"
    /\ UNCHANGED <<animVars, wfhVars, acVars, returnerVars, lehdVars, stationVars, script, allow_list, exit_status, written, bg_geo, berkeley_bg, tracts_geo>>

\* lines 48-50: no connection, a non-success status (raise_for_status) or a body that is
\* no JSON; the exception is not caught
BgCensusFetchFails ==
    /\ script = "bg"
    /\ pc = "get"
    /\ \E why \in {"connection", "status", "json"} :
         /\ log' = log \o << Ev("request", CensusUrl), Ev("error", <<"census", why>>),
                             Ev("message", <<"Traceback">>), Ev("exit", <<1>>) >>
         /\ exit_status' = <<1>>
         /\ pc' = "exited"
    /\ UNCHANGED <<animVars, wfhVars, acVars, returnerVars, lehdVars, stationVars, bgVars, script, allow_list, written>>

\* lines 55-87: the table, GEOID, the derived variables, the summary
BgDerive ==
    /\ script = "bg"
    /\ pc = "derive"
    /\ bg_df' = Derived(bg_df)
    /\ log' = Append(log, Ev("metrics", <<"derived variables">>))
    /\ pc' = "save_csv"
    /\ UNCHANGED <<animVars, wfhVars, acVars, returnerVars, lehdVars, stationVars, script, allow_list, exit_status, written, bg_geo, berkeley_bg, tracts_geo>>

\* lines 90-92: df.to_csv(output_file)
BgSaveCsv ==
    /\ script = "bg"
    /\ pc = "save_csv"
    /\ written' = Append(written, [file |-> BgCsvFile, rows |-> bg_df])
    /\ log' = Append(log, Ev("write", BgCsvFile))
    /\ pc' = "tiger"
    /\ UNCHANGED <<animVars, wfhVars, acVars, returnerVars, lehdVars, stationVars, bgVars, script, allow_list, exit_status>>

\* line 91: the file cannot be written (data/processed is not created by the script)
BgSaveCsvFails ==
    /\ script = "bg"
    /\ pc = "save_csv"
    /\ Crash(<<"to_csv">> \o BgCsvFile)
    /\ UNCHANGED <<animVars, wfhVars, acVars, returnerVars, lehdVars, stationVars, bgVars, script, allow_list, written>>

\* lines 99-104: the TIGER shapefile is downloaded and read
BgTigerFetch ==
    /\ script = "bg"
    /\ pc = "tiger"
    /\ \E shapes \in TablesOf(TigerRows) : bg_geo' = shapes
    /\ log' = Append(log, Ev("request", TigerUrl))
    /\ pc' = "filter"
    /\ UNCHANGED <<animVars, wfhVars, acVars, returnerVars, lehdVars, stationVars, script, allow_list, exit_status, written, bg_df, berkeley_bg, tracts_geo>>

\* line 103: the download or the read fails; the exception is not caught
BgTigerFetchFails ==
    /\ script = "bg"
    /\ pc = "tiger"
    /\ log' = log \o << Ev("request", TigerUrl), Ev("error", <<"tiger", "read_file">>),
                        Ev("message", <<"Traceback">>), Ev("exit", <<1>>) >>
    /\ exit_status' = <<1>>
    /\ pc' = "exited"
    /\ UNCHANGED <<animVars, wfhVars, acVars, returnerVars, lehdVars, stationVars, bgVars, script, allow_list, written>>

\* lines 107-121: the county filter, the merge, the Berkeley filter
BgFilter ==
    /\ script = "bg"
    /\ pc = "filter"
    /\ allow_list' = bg_berkeley_tracts
    /\ LET merged == WithTractNum(MergeLeft(AlamedaOnly(bg_geo), bg_df))
       IN  /\ bg_geo' = merged
           /\ berkeley_bg' = BerkeleyBlockGroups(merged)
    /\ log' = Append(log, Ev("filter", <<"berkeley_bg">>))
    /\ pc' = "save_geo"
    /\ UNCHANGED <<animVars, wfhVars, acVars, returnerVars, lehdVars, stationVars, script, exit_status, written, bg_df, tracts_geo>>

\* lines 124-126: berkeley_bg.to_file(output_geo)
BgSaveGeo ==
    /\ script = "bg"
    /\ pc = "save_geo"
    /\ written' = Append(written, [file |-> BgGeoFile, rows |-> berkeley_bg])
    /\ log' = Append(log, Ev("write", BgGeoFile))
    /\ pc' = "tracts"
    /\ UNCHANGED <<animVars, wfhVars, acVars, returnerVars, lehdVars, stationVars, bgVars, script, allow_list, exit_status>>

\* line 125: the file cannot be written
BgSaveGeoFails ==
    /\ script = "bg"
    /\ pc = "save_geo"
    /\ Crash(<<"to_file">> \o BgGeoFile)
    /\ UNCHANGED <<animVars, wfhVars, acVars, returnerVars, lehdVars, stationVars, bgVars, script, allow_list, written>>

\* line 133: the tracts file of an earlier script is read; it holds some features
BgReadTracts ==
    /\ script = "bg"
    /\ pc = "tracts"
    /\ \E n \in 0..MaxBlockGroups : tracts_geo' = <<n>>
    /\ log' = Append(log, Ev("read", TractsFile))
    /\ pc' = "compare"
    /\ UNCHANGED <<animVars, wfhVars, acVars, returnerVars, lehdVars, stationVars, script, allow_list, exit_status, written, bg_df, bg_geo, berkeley_bg>>

\* line 133: the tracts file is missing
BgReadTractsFails ==
    /\ script = "bg"
    /\ pc = "tracts"
    /\ Crash(<<"read_file">> \o TractsFile)
    /\ UNCHANGED <<animVars, wfhVars, acVars, returnerVars, lehdVars, stationVars, bgVars, script, allow_list, written>>

\* lines 135-151: the comparison is printed and the script ends
BgCompare ==
    /\ script = "bg"
    /\ pc = "compare"
    /\ tracts_geo[1] # 0
    /\ log' = log \o << Ev("metrics", <<"comparison">>), Ev("exit", <<0>>) >>
    /\ exit_status' = <<0>>
    /\ pc' = "exited"
    /\ UNCHANGED <<animVars, wfhVars, acVars, returnerVars, lehdVars, stationVars, bgVars, script, allow_list, written>>

\* line 138: len(berkeley_bg) / len(tracts_geo) with no tract: ZeroDivisionError, not caught
BgCompareFails ==
    /\ script = "bg"
    /\ pc = "compare"
    /\ tracts_geo[1] = 0
    /\ log' = log \o << Ev("metrics", <<"comparison">>), Ev("error", <<"ZeroDivisionError", "Ratio">>),
                        Ev("message", <<"Traceback">>), Ev("exit", <<1>>) >>
    /\ exit_status' = <<1>>
    /\ pc' = "exited"
    /\ UNCHANGED <<animVars, wfhVars, acVars, returnerVars, lehdVars, stationVars, bgVars, script, allow_list, written>>

BgNext ==
    \/ BgCensusFetch \/ BgCensusFetchFails \/ BgDerive \/ BgSaveCsv \/ BgSaveCsvFails
    \/ BgTigerFetch \/ BgTigerFetchFails \/ BgFilter \/ BgSaveGeo \/ BgSaveGeoFails
    \/ BgReadTracts \/ BgReadTractsFails \/ BgCompare \/ BgCompareFails

-----------------------------------------------------------------------------
(* visualizations/create_station_comparison_map.py *)

\* lines 19-36: the stations and their daily ridership (the other columns are not computed with)
StationData ==
    << [Station |-> "Downtown Berkeley", Ridership_2019 |-> 11566, Ridership_2024 |-> 4170],
       [Station |-> "North Berkeley", Ridership_2019 |-> 5894, Ridership_2024 |-> 2248],
       [Station |-> "Ashby", Ridership_2019 |-> 7522, Ridership_2024 |-> 2264] >>

GainMetrics(r) ==
    LET pct_loss == Pct(r.Ridership_2024 - r.Ridership_2019, r.Ridership_2019, 1)
    IN  [Loss |-> r.Ridership_2024 - r.Ridership_2019,
         Pct_Loss |-> pct_loss,
         Retention |-> Round(FRMinus(100, pct_loss), 1)] @@ r
\* lines 39-41, for one row
StationMetrics(r) ==
    LET pct_loss == Pct(r.Ridership_2019 - r.Ridership_2024, r.Ridership_2019, 1)
    IN  [Loss |-> r.Ridership_2019 - r.Ridership_2024,
         Pct_Loss |-> pct_loss,
         Retention |-> Round(FRMinus(100, pct_loss), 1)] @@ r

StationTractsFile == <<"data/processed/berkeley_tracts_with_demographics.geojson">>
StationCatchmentsFile == <<"data/processed/bart_station_catchments.geojson">>
StationHtmlFile == <<"supporting_analysis/multimodal_connectivity_paradox.html">>

\* lines 15-16: the two local files are read
StationLoad ==
    /\ script = "station"
    /\ pc = "load"
    /\ log' = log \o << Ev("read", StationTractsFile), Ev("read", StationCatchmentsFile) >>
    /\ pc' = "metrics"
    /\ UNCHANGED <<animVars, wfhVars, acVars, returnerVars, lehdVars, bgVars, stationVars, script, allow_list, exit_status, written>>

\* lines 15-16: one of the files is missing; the exception is not caught
StationLoadFails ==
    /\ script = "station"
    /\ pc = "load"
    /\ \E f \in {StationTractsFile, StationCatchmentsFile} : Crash(<<"read_file">> \o f)
    /\ UNCHANGED <<animVars, wfhVars, acVars, returnerVars, lehdVars, bgVars, stationVars, script, allow_list, written>>

\* lines 19-41: the table and its metrics
StationCompute ==
    /\ script = "station"
    /\ pc = "metrics"
    /\ stations' = [i \in 1..Len(StationData) |-> StationMetrics(StationData[i])]
    /\ log' = Append(log, Ev("metrics", <<"stations">>))
    /\ pc' = "figure"
    /\ UNCHANGED <<animVars, wfhVars, acVars, returnerVars, lehdVars, bgVars, script, allow_list, exit_status, written>>

\* lines 44-200: the figure is built and written, and the script ends
StationWrite ==
    /\ script = "station"
    /\ pc = "figure"
    /\ written' = Append(written, [file |-> StationHtmlFile, rows |-> stations])
    /\ log' = log \o << Ev("write", StationHtmlFile), Ev("exit", <<0>>) >>
    /\ exit_status' = <<0>>
    /\ pc' = "exited"
    /\ UNCHANGED <<animVars, wfhVars, acVars, returnerVars, lehdVars, bgVars, stationVars, script, allow_list>>

\* line 200: the page cannot be written
StationWriteFails ==
    /\ script = "station"
    /\ pc = "figure"
    /\ Crash(<<"write_html">> \o StationHtmlFile)
    /\ UNCHANGED <<animVars, wfhVars, acVars, returnerVars, lehdVars, bgVars, stationVars, script, allow_list, written>>

StationNext ==
    \/ StationLoad \/ StationLoadFails \/ StationCompute \/ StationWrite \/ StationWriteFails

-----------------------------------------------------------------------------
(* create_ac_transit_route_network_map.py *)

\* rows the table trips holds at most
MaxTrips == 2

\* the Berkeley area of lines 43-48, in hundredths of a degree: 37.85 <= stop_lat <=
\* 37.88 and -122.30 <= stop_lon <= -122.25
BoxLatMin == 3785
BoxLatMax == 3788
BoxLonMin == -12230
BoxLonMax == -12225

\* the 30 of berkeley_route_ids[:30]
RouteLimit == 30

\* the 1 of shape_ids[:1]
ShapesPerRoute == 1

\* the 2 of len(shape_data) < 2
MinShapePoints == 2

\* stops.txt: a stop inside the area, a stop on its corner, a stop north of it
AcStops ==
    << [stop_id |-> "in", stop_lat |-> 3787, stop_lon |-> -12227],
       [stop_id |-> "corner", stop_lat |-> 3785, stop_lon |-> -12230],
       [stop_id |-> "north", stop_lat |-> 3790, stop_lon |-> -12227] >>

\* A network with more routes than the loop goes through: the routes X1, X2, ...,
\* one more than RouteLimit, each with one trip stopping inside the area; every route
\* has its own shape of two points, but X2, which has the shape of X1, and X3, whose
\* shape has one point
ManyRoutes == 1..(RouteLimit + 1)
ManyId(i) == "X" \o ToString(i)
ManyShape(i) == IF i = 2 THEN <<ManyId(1)>> ELSE <<ManyId(i)>>

\* routes.txt
AcRoutes ==
    << [route_id |-> "R1", route_short_name |-> "51B", route_long_name |-> "University"],
       [route_id |-> "R2", route_short_name |-> "6", route_long_name |-> "Telegraph"],
       [route_id |-> "R3", route_short_name |-> "7", route_long_name |-> "Arlington"] >>
    \o [i \in ManyRoutes |->
           [route_id |-> ManyId(i), route_short_name |-> ToString(i), route_long_name |-> "Line"]]

\* shapes.txt: shape A has three points (not in sequence order in the file), shape B
\* one point, shape C two points
AcShapes ==
    << [shape_id |-> <<"A">>, shape_pt_sequence |-> 2, shape_pt_lat |-> 3787, shape_pt_lon |-> -12227],
       [shape_id |-> <<"A">>, shape_pt_sequence |-> 1, shape_pt_lat |-> 3786, shape_pt_lon |-> -12228],
       [shape_id |-> <<"B">>, shape_pt_sequence |-> 1, shape_pt_lat |-> 3787, shape_pt_lon |-> -12226],
       [shape_id |-> <<"A">>, shape_pt_sequence |-> 3, shape_pt_lat |-> 3788, shape_pt_lon |-> -12226],
       [shape_id |-> <<"C">>, shape_pt_sequence |-> 1, shape_pt_lat |-> 3785, shape_pt_lon |-> -12230],
       [shape_id |-> <<"C">>, shape_pt_sequence |-> 2, shape_pt_lat |-> 3786, shape_pt_lon |-> -12229] >>
    \o [i \in ManyRoutes |->
           [shape_id |-> <<ManyId(i)>>, shape_pt_sequence |-> 2,
            shape_pt_lat |-> 3786, shape_pt_lon |-> -12229 + i]]
    \o SelectSeq([i \in ManyRoutes |->
                     [shape_id |-> <<ManyId(i)>>, shape_pt_sequence |-> 1,
                      shape_pt_lat |-> 3785, shape_pt_lon |-> -12230 + i]],
                 LAMBDA r : r.shape_id # <<ManyId(3)>>)

\* The rows trips.txt may hold (a missing shape_id, NaN in the table, is <<>>):
\*   t1: route R1, shape A          t2: route R2, shape A (the shape of t1)
\*   t3: route R2, shape C          t4: route R3, shape B (one point)
\*   t5: route R3, shape C          t6: route R1, no shape
TripRows ==
    { [route_id |-> "R1", trip_id |-> "t1", shape_id |-> <<"A">>],
      [route_id |-> "R2", trip_id |-> "t2", shape_id |-> <<"A">>],
      [route_id |-> "R2", trip_id |-> "t3", shape_id |-> <<"C">>],
      [route_id |-> "R3", trip_id |-> "t4", shape_id |-> <<"B">>],
      [route_id |-> "R3", trip_id |-> "t5", shape_id |-> <<"C">>],
      [route_id |-> "R1", trip_id |-> "t6", shape_id |-> <<>>] }

\* stop_times.txt: t5 stops north of the area only, t2 on the corner, the others inside
AcStopTimes ==
    << [trip_id |-> "t1", stop_id |-> "in"], [trip_id |-> "t1", stop_id |-> "north"],
       [trip_id |-> "t2", stop_id |-> "corner"], [trip_id |-> "t3", stop_id |-> "in"],
       [trip_id |-> "t4", stop_id |-> "in"], [trip_id |-> "t5", stop_id |-> "north"],
       [trip_id |-> "t6", stop_id |-> "in"] >>
    \o [i \in ManyRoutes |-> [trip_id |-> "x" \o ToString(i), stop_id |-> "in"]]

\* trips.txt of the network of many routes
ManyRouteTrips ==
    [i \in ManyRoutes |->
        [route_id |-> ManyId(i), trip_id |-> "x" \o ToString(i), shape_id |-> ManyShape(i)]]

\* the tables trips.txt may hold: at most MaxTrips of the trips t1..t6, each once, or
\* the trips of the network of many routes
TripTables ==
    UNION { { t \in [1..n -> TripRows] : \A i, j \in 1..n : i # j => t[i] # t[j] } :
            n \in 0..MaxTrips }
    \cup {ManyRouteTrips}

\* values[:n]
Take(values, n) == SubSeq(values, 1, IF Len(values) < n THEN Len(values) ELSE n)

\* Series.unique(): the values in the order of their first appearance
Unique(values) ==
    LET placed == [i \in 1..Len(values) |-> <<i, values[i]>>]
        firsts == SelectSeq(placed, LAMBDA e : \A j \in 1..(e[1] - 1) : values[j] # e[2])
    IN  [k \in 1..Len(firsts) |-> firsts[k][2]]

\* the column of a table
Column(t, col) == [i \in 1..Len(t) |-> t[i][col]]

\* lines 43-48: the stops of the Berkeley area
BerkeleyStops ==
    SelectSeq(AcStops, LAMBDA r :
        /\ r.stop_lat >= BoxLatMin /\ r.stop_lat <= BoxLatMax
        /\ r.stop_lon >= BoxLonMin /\ r.stop_lon <= BoxLonMax)

\* line 51: the trips serving Berkeley stops
BerkeleyTrips ==
    Unique(Column(SelectSeq(AcStopTimes,
                            LAMBDA r : Isin(r.stop_id, Column(BerkeleyStops, "stop_id"))),
                  "trip_id"))

\* line 54: the routes of these trips
BerkeleyRouteIds(tr) ==
    Unique(Column(SelectSeq(tr, LAMBDA r : Isin(r.trip_id, BerkeleyTrips)), "route_id"))

\* lines 61-62: route_trips['shape_id'].dropna().unique()
ShapeIdsOf(tr, route_id) ==
    Unique(SelectSeq(Column(SelectSeq(tr, LAMBDA r : r.route_id = route_id), "shape_id"),
                     LAMBDA x : x # <<>>))

RECURSIVE SortBySequence(_)
\* .sort_values('shape_pt_sequence') (the sequence numbers of a shape are distinct)
SortBySequence(t) ==
    IF t = <<>> THEN <<>>
    ELSE LET least == CHOOSE i \in 1..Len(t) :
                         \A j \in 1..Len(t) : t[i].shape_pt_sequence <= t[j].shape_pt_sequence
         IN  <<t[least]>>
                \o SortBySequence(SubSeq(t, 1, least - 1) \o SubSeq(t, least + 1, Len(t)))

\* line 69: the points of a shape, in sequence order
ShapeData(shape_id) == SortBySequence(SelectSeq(AcShapes, LAMBDA r : r.shape_id = shape_id))

\* lines 75-88: the trace of a route along a shape
RouteTrace(route_id, shape_id) ==
    LET route_info == SelectSeq(AcRoutes, LAMBDA r : r.route_id = route_id)[1]
        shape_data == ShapeData(shape_id)
    IN  [name |-> <<"Route ", route_info.route_short_name>>,
         route_id |-> route_id,
         shape_id |-> shape_id,
         lon |-> Column(shape_data, "shape_pt_lon"),
         lat |-> Column(shape_data, "shape_pt_lat")]

AcGtfsFiles ==
    << <<"data/raw/ac_transit/routes.txt">>, <<"data/raw/ac_transit/stops.txt">>,
       <<"data/raw/ac_transit/stop_times.txt">>, <<"data/raw/ac_transit/trips.txt">>,
       <<"data/raw/ac_transit/shapes.txt">> >>
AcConnectivityFile == <<"data/processed/bart_ac_transit_connectivity.csv">>
AcHtmlFile == <<"outputs/ac_transit_route_network.html">>

\* the loop goes through every route
EveryRoute == berkeley_route_ids

\* the routes the loop goes through
RoutesConsidered == Take(berkeley_route_ids, RouteLimit)

\* lines 20-36: the GTFS tables and the connectivity table are read
AcLoad ==
    /\ script = "ac"
    /\ pc = "ac_load"
    /\ \E tr \in TripTables : trips' = tr
    /\ log' = log \o [i \in 1..Len(AcGtfsFiles) |-> Ev("read", AcGtfsFiles[i])]
                  \o << Ev("read", AcConnectivityFile) >>
    /\ pc' = "ac_select"
    /\ UNCHANGED <<animVars, wfhVars, returnerVars, lehdVars, bgVars, stationVars, script, allow_list, exit_status,
                   written, berkeley_route_ids, route_pos, plotted_shapes, fig>>

\* lines 20-34: one of the files is missing; the exception is not caught
AcLoadFails ==
    /\ script = "ac"
    /\ pc = "ac_load"
    /\ \E i \in 1..Len(AcGtfsFiles) + 1 :
         Crash(<<"read_csv">> \o (IF i <= Len(AcGtfsFiles) THEN AcGtfsFiles[i]
                                  ELSE AcConnectivityFile))
    /\ UNCHANGED <<animVars, wfhVars, acVars, returnerVars, lehdVars, bgVars, stationVars, script, allow_list, written>>

\* lines 39-58: the routes serving the Berkeley area; no shape is plotted yet
AcSelect ==
    /\ script = "ac"
    /\ pc = "ac_select"
    /\ berkeley_route_ids' = BerkeleyRouteIds(trips)
    /\ plotted_shapes' = {}
    /\ route_pos' = 1
    /\ log' = Append(log, Ev("filter", <<"berkeley_route_ids">>))
    /\ pc' = "ac_loop"
    /\ UNCHANGED <<animVars, wfhVars, returnerVars, lehdVars, bgVars, stationVars, script, allow_list, exit_status,
                   written, trips, fig>>

\* lines 59-88: one turn of the loop over berkeley_route_ids[:30]
AcPlotRoute ==
    /\ script = "ac"
    /\ pc = "ac_loop"
    /\ route_pos <= Len(RoutesConsidered)
    /\ LET route_id == RoutesConsidered[route_pos]
           shape_ids == Take(ShapeIdsOf(trips, route_id), ShapesPerRoute)
       IN  IF shape_ids = <<>> \/ shape_ids[1] \in plotted_shapes
           THEN UNCHANGED <<plotted_shapes, fig>>
           ELSE /\ plotted_shapes' = plotted_shapes \cup {shape_ids[1]}
                /\ fig' = IF Len(ShapeData(shape_ids[1])) < MinShapePoints THEN fig
                          ELSE Append(fig, RouteTrace(route_id, shape_ids[1]))
    /\ route_pos' = route_pos + 1
    /\ UNCHANGED <<animVars, wfhVars, returnerVars, lehdVars, bgVars, stationVars, script, allow_list, pc, log,
                   exit_status, written, trips, berkeley_route_ids>>

\* lines 90-177: the station markers and the layout are added, the page is written and
\* the script ends
AcWrite ==
    /\ script = "ac"
    /\ pc = "ac_loop"
    /\ route_pos > Len(RoutesConsidered)
    /\ written' = Append(written, [file |-> AcHtmlFile, rows |-> fig])
    /\ log' = log \o << Ev("write", AcHtmlFile), Ev("exit", <<0>>) >>
    /\ exit_status' = <<0>>
    /\ pc' = "exited"
    /\ UNCHANGED <<animVars, wfhVars, acVars, returnerVars, lehdVars, bgVars, stationVars, script, allow_list>>

\* line 177: the page cannot be written
AcWriteFails ==
    /\ script = "ac"
    /\ pc = "ac_loop"
    /\ route_pos > Len(RoutesConsidered)
    /\ Crash(<<"write_html">> \o AcHtmlFile)
    /\ UNCHANGED <<animVars, wfhVars, acVars, returnerVars, lehdVars, bgVars, stationVars, script, allow_list, written>>

AcNext == AcLoad \/ AcLoadFails \/ AcSelect \/ AcPlotRoute \/ AcWrite \/ AcWriteFails

-----------------------------------------------------------------------------
(* scripts_key/analyze_returner_mode_choice.py (visualizations/ holds a copy with the *)
(* same numbers)                                                                      *)

\* returners_total = 450000
returners_total == 450000

\* transit_share_2019 = 0.13, in hundredths
transit_share_2019 == 13

\* the total of the annotation of Panel A: "Total: 59,000 riders"
AnnotatedTotal == 59000

\* lines 17-32: the table breakdown (without the descriptions)
Breakdown ==
    << [Category |-> "Hybrid Schedules", Riders |-> 20000, Percent |-> 34],
       [Category |-> "Switched to Driving", Riders |-> 30000, Percent |-> 51],
       [Category |-> "Returned to Transit", Riders |-> 6000, Percent |-> 10],
       [Category |-> "Other Changes", Riders |-> 3000, Percent |-> 5] >>

ReturnerHtmlFile == <<"supporting_analysis/returner_mode_choice_analysis.html">>

\* lines 13-58: the numbers and the tables
ReturnerCompute ==
    /\ script = "returner"
    /\ pc = "numbers"
    /\ returners_former_transit' = <<IntOfShare(returners_total, transit_share_2019)>>
    /\ log' = Append(log, Ev("metrics", <<"returners_former_transit">>))
    /\ pc' = "chart"
    /\ UNCHANGED <<animVars, wfhVars, acVars, lehdVars, bgVars, stationVars, script, allow_list, exit_status, written>>

\* lines 60-213: the figure, with the bars of breakdown and the annotation of the
\* total, is built and written, and the script ends
ReturnerWrite ==
    /\ script = "returner"
    /\ pc = "chart"
    /\ written' = Append(written, [file |-> ReturnerHtmlFile, rows |-> Breakdown,
                                   annotation |-> AnnotatedTotal])
    /\ log' = log \o << Ev("write", ReturnerHtmlFile), Ev("exit", <<0>>) >>
    /\ exit_status' = <<0>>
    /\ pc' = "exited"
    /\ UNCHANGED <<animVars, wfhVars, acVars, returnerVars, lehdVars, bgVars, stationVars, script, allow_list>>

\* line 213: the page cannot be written
ReturnerWriteFails ==
    /\ script = "returner"
    /\ pc = "chart"
    /\ Crash(<<"write_html">> \o ReturnerHtmlFile)
    /\ UNCHANGED <<animVars, wfhVars, acVars, returnerVars, lehdVars, bgVars, stationVars, script, allow_list, written>>

ReturnerNext == ReturnerCompute \/ ReturnerWrite \/ ReturnerWriteFails

-----------------------------------------------------------------------------
(* create_dual_system_degradation_ANIMATED.py *)

\* lines 17-22: bart_data, with BART_Ridership_% in tenths of a percent
bart_data ==
    << [Year |-> 2018, Ridership |-> 1051], [Year |-> 2019, Ridership |-> 1000],
       [Year |-> 2020, Ridership |-> 802],  [Year |-> 2021, Ridership |-> 124],
       [Year |-> 2022, Ridership |-> 210],  [Year |-> 2023, Ridership |-> 360],
       [Year |-> 2024, Ridership |-> 350] >>

\* lines 25-30: ac_transit_data, with AC_Ridership_% in tenths of a percent
ac_transit_data ==
    << [Year |-> 2019, Ridership |-> 1000], [Year |-> 2020, Ridership |-> 280],
       [Year |-> 2021, Ridership |-> 280],  [Year |-> 2022, Ridership |-> 607],
       [Year |-> 2023, Ridership |-> 641],  [Year |-> 2024, Ridership |-> 752] >>

RECURSIVE Sorted(_)
\* sorted(S) for a set of integers
Sorted(S) ==
    IF S = {} THEN <<>>
    ELSE LET least == CHOOSE x \in S : \A y \in S : x <= y
         IN  <<least>> \o Sorted(S \ {least})

\* line 36: sorted(set(bart_data['Year'].tolist() + ac_transit_data['Year'].tolist()))
years ==
    Sorted({ bart_data[i].Year : i \in 1..Len(bart_data) }
           \cup { ac_transit_data[i].Year : i \in 1..Len(ac_transit_data) })

RECURSIVE Str(_)
\* str(n) for an integer n >= 0: its decimal digits
Str(n) == IF n < 10 THEN <<n>> ELSE Append(Str(n \div 10), n % 10)

\* the rows of the years before y only
StrictlyBefore(t, y) == SelectSeq(t, LAMBDA r : r.Year < y)

\* lines 75-76: t[t['Year'] <= year]
UpTo(t, y) == SelectSeq(t, LAMBDA r : r.Year <= y)

\* go.Scatter(x=t['Year'], y=t[ridership], name=name)
Scatter(t, name) == [name |-> name, x |-> Column(t, "Year"), y |-> Column(t, "Ridership")]

BartName == "BART Berkeley Stations"
AcName == "AC Transit System"

\* lines 78-107: go.Frame(data=[...], name=str(year))
Frame(y) ==
    [name |-> Str(y),
     data |-> << Scatter(UpTo(bart_data, y), BartName), Scatter(UpTo(ac_transit_data, y), AcName) >>]

\* lines 163-188: the slider: one step per pair of zip(years, frames)
Slider(fs) ==
    LET n == IF Len(years) < Len(fs) THEN Len(years) ELSE Len(fs)
    IN  [active |-> Len(fs) - 1,
         steps |-> [i \in 1..n |-> [args |-> fs[i].name, label |-> Str(years[i])]]]

AnimHtmlFile == <<"maps/MAP2_Dual_System_Degradation.html">>

\* lines 33-70: the figure with the two full traces
AnimTraces ==
    /\ script = "anim"
    /\ pc = "anim_traces"
    /\ anim_fig' = [data |-> << Scatter(bart_data, BartName), Scatter(ac_transit_data, AcName) >>,
                    frames |-> <<>>, sliders |-> <<>>]
    /\ pc' = "anim_frames"
    /\ UNCHANGED <<wfhVars, acVars, returnerVars, lehdVars, bgVars, stationVars, script, allow_list,
                   log, exit_status, written, frames, frame_pos>>

\* lines 74-108: one turn of the loop `for year in years`
AnimFrame ==
    /\ script = "anim"
    /\ pc = "anim_frames"
    /\ frame_pos <= Len(years)
    /\ frames' = Append(frames, Frame(years[frame_pos]))
    /\ frame_pos' = frame_pos + 1
    /\ UNCHANGED <<wfhVars, acVars, returnerVars, lehdVars, bgVars, stationVars, script, allow_list,
                   pc, log, exit_status, written, anim_fig>>

\* lines 110-217: after the loop, fig.frames = frames and the layout with the slider
AnimLayout ==
    /\ script = "anim"
    /\ pc = "anim_frames"
    /\ frame_pos > Len(years)
    /\ anim_fig' = [anim_fig EXCEPT !.frames = frames, !.sliders = <<Slider(frames)>>]
    /\ pc' = "anim_write"
    /\ UNCHANGED <<wfhVars, acVars, returnerVars, lehdVars, bgVars, stationVars, script, allow_list,
                   log, exit_status, written, frames, frame_pos>>

\* line 221: fig.write_html(output_path), and the script ends
AnimWrite ==
    /\ script = "anim"
    /\ pc = "anim_write"
    /\ written' = Append(written, [file |-> AnimHtmlFile, rows |-> anim_fig.data])
    /\ log' = log \o << Ev("write", AnimHtmlFile), Ev("exit", <<0>>) >>
    /\ exit_status' = <<0>>
    /\ pc' = "exited"
    /\ UNCHANGED <<animVars, wfhVars, acVars, returnerVars, lehdVars, bgVars, stationVars, script, allow_list>>

\* line 221: the page cannot be written
AnimWriteFails ==
    /\ script = "anim"
    /\ pc = "anim_write"
    /\ Crash(<<"write_html">> \o AnimHtmlFile)
    /\ UNCHANGED <<animVars, wfhVars, acVars, returnerVars, lehdVars, bgVars, stationVars, script, allow_list, written>>

AnimNext == AnimTraces \/ AnimFrame \/ AnimLayout \/ AnimWrite \/ AnimWriteFails

-----------------------------------------------------------------------------
(* analyze_wfh_retention_and_patterns.py *)

\* lines 15-19: the literal of wfh_data
WfhLiteral ==
    << [Year |-> 2019, WFH_Workers |-> 260000,  WFH_Percent |-> 7],
       [Year |-> 2020, WFH_Workers |-> 800000,  WFH_Percent |-> 22],
       [Year |-> 2021, WFH_Workers |-> 1200000, WFH_Percent |-> 33],
       [Year |-> 2022, WFH_Workers |-> 938000,  WFH_Percent |-> 25],
       [Year |-> 2023, WFH_Workers |-> 750000,  WFH_Percent |-> 19] >>

\* the 260000 of line 21
Baseline2019 == 260000
\* the 1200000 of line 22
PeakWorkers == 1200000

\* both columns measured from the 2019 baseline
FlowsFromBaseline(t) ==
    [i \in 1..Len(t) |->
        WithColumn(WithColumn(t[i], "New_WFH_vs_2019", t[i].WFH_Workers - Baseline2019),
                   "Returned_vs_Peak", t[i].WFH_Workers - Baseline2019)]

\* lines 21-22: New_WFH_vs_2019 = WFH_Workers - 260000, Returned_vs_Peak = 1200000 - WFH_Workers
WithFlows(t) ==
    [i \in 1..Len(t) |->
        WithColumn(WithColumn(t[i], "New_WFH_vs_2019", t[i].WFH_Workers - Baseline2019),
                   "Returned_vs_Peak", PeakWorkers - t[i].WFH_Workers)]

\* lines 26-42: changed_patterns
changed_patterns ==
    << [Category |-> "Hybrid Work Schedules",     Estimated_Riders |-> 8000],
       [Category |-> "Job Changes (non-commute)", Estimated_Riders |-> 4000],
       [Category |-> "Unemployment/Retirement",   Estimated_Riders |-> 3000],
       [Category |-> "Shift to Off-Peak Hours",   Estimated_Riders |-> 3000],
       [Category |-> "Reduced Trip Frequency",    Estimated_Riders |-> 2000] >>

\* lines 60-63: wfh_flow, in thousands of workers
wfh_flow ==
    << [Category |-> "2019 Baseline", Workers |-> 260],
       [Category |-> "2021 Peak (+940k new)", Workers |-> 1200],
       [Category |-> "2023 Stayed Home (490k)", Workers |-> 750],
       [Category |-> "2023 Returned to Office (450k)", Workers |-> 450] >>

\* the 20000 of line 80
PatternBase == 20000

\* line 80: f"{val/20000*100:.0f}", the percentage printed on a bar
PatternPct(val) == Round(FTimes(NpDiv(val, PatternBase), 100), 0).n

\* lines 100-107: the numbers of the caption
Caption ==
    [new_wfh |-> 940000, still_home_pct |-> 52, returned_pct |-> 48,
     changed_riders |-> 20000, shares |-> <<40, 20, 15, 15, 10>>]

WfhHtmlFile == <<"outputs/wfh_retention_clarification.html">>

\* lines 15-22: wfh_data and its two derived columns
WfhDerive ==
    /\ script = "wfh"
    /\ pc = "wfh_derive"
    /\ wfh_data' = WithFlows(WfhLiteral)
    /\ pc' = "wfh_chart"
    /\ UNCHANGED <<animVars, acVars, returnerVars, lehdVars, bgVars, stationVars, script, allow_list,
                   log, exit_status, written, wfh_fig>>

\* lines 48-120: the two bar charts and the caption
WfhChart ==
    /\ script = "wfh"
    /\ pc = "wfh_chart"
    /\ wfh_fig' = << [flow |-> wfh_flow,
                      patterns |-> [i \in 1..Len(changed_patterns) |->
                                       [x |-> changed_patterns[i].Estimated_Riders,
                                        pct |-> PatternPct(changed_patterns[i].Estimated_Riders)]],
                      caption |-> Caption] >>
    /\ pc' = "wfh_write"
    /\ UNCHANGED <<animVars, acVars, returnerVars, lehdVars, bgVars, stationVars, script, allow_list,
                   log, exit_status, written, wfh_data>>

\* line 123: fig.write_html(output_path), and the script ends
WfhWrite ==
    /\ script = "wfh"
    /\ pc = "wfh_write"
    /\ written' = Append(written, [file |-> WfhHtmlFile, rows |-> wfh_fig[1].patterns])
    /\ log' = log \o << Ev("write", WfhHtmlFile), Ev("exit", <<0>>) >>
    /\ exit_status' = <<0>>
    /\ pc' = "exited"
    /\ UNCHANGED <<animVars, wfhVars, acVars, returnerVars, lehdVars, bgVars, stationVars, script, allow_list>>

\* line 123: the page cannot be written (the script does not create outputs/)
WfhWriteFails ==
    /\ script = "wfh"
    /\ pc = "wfh_write"
    /\ Crash(<<"write_html">> \o WfhHtmlFile)
    /\ UNCHANGED <<animVars, wfhVars, acVars, returnerVars, lehdVars, bgVars, stationVars, script, allow_list, written>>

WfhNext == WfhDerive \/ WfhChart \/ WfhWrite \/ WfhWriteFails

-----------------------------------------------------------------------------

Scripts == {"lehd", "bg", "station", "ac", "returner", "anim", "wfh"}

Init ==
    /\ script \in Scripts
    /\ pc = CASE script = "lehd" -> "call1" [] script = "bg" -> "get"
               [] script = "station" -> "load" [] script = "ac" -> "ac_load"
               [] script = "returner" -> "numbers" [] script = "anim" -> "anim_traces"
               [] script = "wfh" -> "wfh_derive"
    /\ log = <<>>
    /\ exit_status = <<>>
    /\ written = <<>>
    /\ allow_list = (IF script = "lehd" THEN berkeley_tracts ELSE <<>>)
    /\ year = YEAR_PRE
    /\ fileRows = <<>>
    /\ more = FALSE
    /\ chunks = <<>>
    /\ df = [y \in Years |-> NoneDF]
    /\ job_change = <<>>
    /\ results = [y \in Years |-> <<>>]
    /\ loss = <<>>
    /\ origins = [y \in Years |-> <<>>]
    /\ bg_df = <<>>
    /\ bg_geo = <<>>
    /\ berkeley_bg = <<>>
    /\ tracts_geo = <<>>
    /\ stations = <<>>
    /\ trips = <<>>
    /\ berkeley_route_ids = <<>>
    /\ route_pos = 1
    /\ plotted_shapes = {}
    /\ fig = <<>>
    /\ returners_former_transit = <<>>
    /\ frames = <<>>
    /\ frame_pos = 1
    /\ anim_fig = [data |-> <<>>, frames |-> <<>>, sliders |-> <<>>]
    /\ wfh_data = <<>>
    /\ wfh_fig = <<>>

Next == LehdNext \/ BgNext \/ StationNext \/ AcNext \/ ReturnerNext \/ AnimNext \/ WfhNext

Spec == Init /\ [][Next]_vars

\* a run is one thread of control, and a step that can be taken is taken
FairSpec == Spec /\ WF_vars(Next)

-----------------------------------------------------------------------------
(* Properties *)

\* x is string-equal to an entry of the list
Member(x, list) == \E i \in 1..Len(list) : list[i] = x

\* the first n characters of s (all of s when it is shorter)
FirstChars(s, n) == IF Len(s) <= n THEN s ELSE SubSeq(s, 1, n)

AllRows(t, P(_)) == \A i \in 1..Len(t) : P(t[i])

\* the run has logged an event of this kind
Logged(kind, what) == \E i \in 1..Len(log) : log[i].ev = kind /\ log[i].what = what

\* C1: a geographic filter returns at most as many rows as it was given, and the
\* truncated identifier of every row it returns (the first 11 characters of w_geocode,
\* the first 4 of TRACTCE) is in the allow-list.  In fetch_lodes this is said of the
\* rows kept so far against the rows read so far, and of every table returned; in the
\* block-group script of berkeley_bg against the merged bg_geo.
C1_FilterShrinksIntoAllowList ==
    /\ script = "lehd" =>
         /\ Len(Concat(chunks)) <= Len(fileRows)
         /\ AllRows(Concat(chunks),
                    LAMBDA r : Member(FirstChars(r.w_geocode, 11), berkeley_tracts))
         /\ \A y \in Years :
              /\ AllRows(df[y].rows,
                         LAMBDA r : Member(FirstChars(r.w_geocode, 11), berkeley_tracts))
              /\ (pc = (IF y = YEAR_PRE THEN "call2" ELSE "check"))
                    => Len(df[y].rows) <= Len(fileRows)
    /\ script = "bg" =>
         /\ Len(berkeley_bg) <= Len(bg_geo)
         /\ AllRows(berkeley_bg,
                    LAMBDA r : Member(FirstChars(r.TRACTCE, 4), bg_berkeley_tracts))

\* fetch_lodes has read two rows, kept one and dropped the other
C1_Witness ==
    /\ script = "lehd"
    /\ pc = "loop2"
    /\ Len(fileRows) = 2
    /\ Len(Concat(chunks)) = 1

\* the row of the LEHD example
ExampleFlow ==
    [w_geocode |-> <<0,6,0,0,1,4,0,0,5,0,0,0,0,1>>,
     h_geocode |-> <<0,6,0,7,5,0,1,2,3,4,5,0,0,1>>, S000 |-> 5]

\* the call of fetch_lodes that has just returned without an error, if any
JustReturned ==
    IF script = "lehd" /\ pc \in {"call2", "check"} /\ log[Len(log)].ev = "message"
       /\ log[Len(log)].what # <<"Error">>
    THEN {IF pc = "call2" THEN YEAR_PRE ELSE YEAR_POST}
    ELSE {}

\* C2: when the file of a call of fetch_lodes is the one chunk with the one row
\* (w_geocode "06001400500001", h_geocode "06075012345001", S000 5), the call returns
\* that row and nothing else, and S000 sums to 5 over the result, also as total_jobs
\* of analyze_commutes.
C2_LehdExample ==
    /\ \A y \in JustReturned :
         fileRows = <<ExampleFlow>> =>
            /\ ~df[y].none
            /\ Len(df[y].rows) = 1
            /\ df[y].rows[1].w_geocode = ExampleFlow.w_geocode
            /\ df[y].rows[1].h_geocode = ExampleFlow.h_geocode
            /\ df[y].rows[1].S000 = 5
            /\ SumS000(df[y].rows) = 5
    /\ script = "lehd" =>
         \A y \in Years :
            (/\ results[y] # <<>>
             /\ Len(df[y].rows) = 1
             /\ df[y].rows[1].w_geocode = ExampleFlow.w_geocode
             /\ df[y].rows[1].h_geocode = ExampleFlow.h_geocode
             /\ df[y].rows[1].S000 = ExampleFlow.S000)
               => results[y][1].res.total_jobs = 5

\* the second call has read the example and returned it
C2_Witness ==
    /\ YEAR_POST \in JustReturned
    /\ fileRows = <<ExampleFlow>>
    /\ Len(df[YEAR_POST].rows) = 1
    /\ SumS000(df[YEAR_POST].rows) = 5

\* the two block groups of the vehicle example, as the Census API and the TIGER file
\* give them: tract 06001400500 with 100 households, 20 of them without vehicle, and
\* tract 06001999999 with 50 households, 10 of them without vehicle
ExampleCensus ==
    << [state |-> <<0,6>>, county |-> <<0,0,1>>, tract |-> <<4,0,0,5,0,0>>, block_group |-> <<1>>,
        total_population |-> 100, college_grad_enrollment |-> 10, total_households |-> 100,
        no_vehicle_owner |-> 5, no_vehicle_renter |-> 15, in_labor_force |-> 50, unemployed |-> 5],
       [state |-> <<0,6>>, county |-> <<0,0,1>>, tract |-> <<9,9,9,9,9,9>>, block_group |-> <<1>>,
        total_population |-> 50, college_grad_enrollment |-> 0, total_households |-> 50,
        no_vehicle_owner |-> 0, no_vehicle_renter |-> 10, in_labor_force |-> 20, unemployed |-> 20] >>

ExampleInput ==
    /\ script = "bg"
    /\ pc \in {"save_geo", "tracts", "compare", "exited"}
    /\ Logged("filter", <<"berkeley_bg">>)
    /\ Len(bg_df) = 2
    /\ \A i \in 1..2 :
         /\ bg_df[i].tract = ExampleCensus[i].tract
         /\ bg_df[i].total_households = ExampleCensus[i].total_households
         /\ bg_df[i].households_no_vehicle
               = ExampleCensus[i].no_vehicle_owner + ExampleCensus[i].no_vehicle_renter
    /\ Len(bg_geo) = 2
    /\ bg_geo[1].GEOID = <<0,6,0,0,1,4,0,0,5,0,0,1>>
    /\ bg_geo[2].GEOID = <<0,6,0,0,1,9,9,9,9,9,9,1>>

\* C3: on the vehicle example (tract 06001400500 with 20 of 100 without vehicle, tract
\* 06001999999 with 10 of 50), the Berkeley filter and pct_no_vehicle leave exactly one
\* row, and its pct_no_vehicle is 20.0.
C3_VehicleExample ==
    ExampleInput =>
        /\ Len(berkeley_bg) = 1
        /\ berkeley_bg[1].pct_no_vehicle.k = "fin"
        /\ berkeley_bg[1].pct_no_vehicle.n = 20 * berkeley_bg[1].pct_no_vehicle.d

\* the sum of the jobs of the county totals
RECURSIVE SumJobs(_)
SumJobs(t) == IF t = <<>> THEN 0 ELSE Head(t).jobs + SumJobs(Tail(t))

\* C4: the aggregation neither drops nor double-counts a row: for every year,
\* live_work_berkeley + commute_in = total_jobs = the sum of S000 over the table, and
\* the totals of top_origins by home county sum to the same sum of S000.
C4_NoDoubleCounting ==
    script = "lehd" =>
        \A y \in Years :
          /\ results[y] # <<>> =>
               LET res == results[y][1].res
               IN  /\ res.live_work_berkeley + res.commute_in = res.total_jobs
                   /\ res.total_jobs = SumS000(df[y].rows)
          /\ origins[y] # <<>> =>
               SumJobs(origins[y][1].county_totals) = SumS000(df[y].rows)

\* a table with workers who live in Berkeley and workers who commute in, from several
\* counties, has been analysed
C4_Witness ==
    /\ script = "lehd"
    /\ origins[YEAR_POST] # <<>>
    /\ Len(origins[YEAR_POST][1].county_totals) >= 2
    /\ results[YEAR_POST][1].res.live_work_berkeley > 0
    /\ results[YEAR_POST][1].res.commute_in > 0

\* not-a-number or zero
Sentinel(x) == x.k = "nan" \/ (x.k = "fin" /\ x.n = 0)

\* C5: every ratio computed with a zero denominator is not-a-number or zero: the job
\* change over a 2019 total of 0, the percentages of analyze_commutes over total_jobs 0,
\* the commuter loss over a 2019 commute-in count of 0, and the block-group percentages
\* over 0 households, 0 population, 0 in the labor force.
C5_ZeroDenominatorSentinel ==
    /\ script = "lehd" =>
         /\ (job_change # <<>> /\ SumS000(df[YEAR_PRE].rows) = 0) => Sentinel(job_change[1])
         /\ \A y \in Years :
              (results[y] # <<>> /\ results[y][1].res.total_jobs = 0) =>
                  /\ Sentinel(results[y][1].res.pct_commute_in)
                  /\ Sentinel(results[y][1].pct_live_work)
         /\ (loss # <<>> /\ results[YEAR_PRE][1].res.commute_in = 0) => Sentinel(loss[1].pct)
    /\ (script = "bg" /\ pc \notin {"get", "derive"}) =>
         AllRows(bg_df, LAMBDA r :
            /\ r.total_households = 0 => Sentinel(r.pct_no_vehicle)
            /\ r.total_population = 0 => Sentinel(r.pct_students)
            /\ r.in_labor_force = 0 => Sentinel(r.unemployment_rate))

\* a finite number in [0, 100]
Percentage(x) == x.k = "fin" /\ 0 <= x.n /\ x.n <= 100 * x.d

\* 0 <= numerator <= denominator and 0 < denominator
Proper(num, den) == 0 <= num /\ num <= den /\ 0 < den

\* C6: a derived percentage lies in [0, 100] whenever 0 <= numerator <= denominator and
\* 0 < denominator: pct_commute_in, the three block-group percentages, and Pct_Loss.
C6_PercentagesInRange ==
    /\ script = "lehd" =>
         \A y \in Years :
            (results[y] # <<>>
             /\ Proper(results[y][1].res.commute_in, results[y][1].res.total_jobs))
               => Percentage(results[y][1].res.pct_commute_in)
    /\ (script = "bg" /\ pc \notin {"get", "derive"}) =>
         AllRows(bg_df, LAMBDA r :
            /\ Proper(r.households_no_vehicle, r.total_households) => Percentage(r.pct_no_vehicle)
            /\ Proper(r.student_population, r.total_population) => Percentage(r.pct_students)
            /\ Proper(r.unemployed, r.in_labor_force) => Percentage(r.unemployment_rate))
    /\ script = "station" =>
         AllRows(stations, LAMBDA r :
            Proper(r.Ridership_2019 - r.Ridership_2024, r.Ridership_2019) => Percentage(r.Pct_Loss))

\* a block group with 20 of 100 households without vehicle has its 20 per cent
C6_Witness ==
    /\ script = "bg"
    /\ pc = "save_csv"
    /\ \E i \in 1..Len(bg_df) :
         /\ Proper(bg_df[i].households_no_vehicle, bg_df[i].total_households)
         /\ bg_df[i].pct_no_vehicle = Fin(2000, 100)

\* a step of a pipeline stage: a remote fetch, a filter, a metric computation, a file
\* read or write
StageEvent(e) == e.ev \in {"request", "filter", "metrics", "read", "write"}

\* C7: once a step has failed, no stage is started: no event of a stage follows an
\* error in the run's trace.
C7_FailureAbortsRemainingStages ==
    \A i, j \in 1..Len(log) : (i < j /\ log[i].ev = "error") => ~StageEvent(log[j])

\* the places of the trace where a remote fetch failed
FetchFailures ==
    { i \in 1..Len(log) :
        log[i].ev = "error" /\ log[i].what[1] \in {"fetch_lodes", "census", "tiger"} }

\* C8: after a failed remote fetch the run computes no metric and writes no file (in
\* the LEHD script, whose fetches come first, it has done neither before), and does not
\* exit 0; it ends with a diagnostic message and a non-zero exit status.
C8_FailedFetchEndsRun ==
    /\ [](\A i \in FetchFailures :
            /\ \A j \in (i + 1)..Len(log) : log[j].ev \notin {"metrics", "write"}
            /\ script = "lehd" => \A j \in 1..Len(log) : log[j].ev \notin {"metrics", "write"}
            /\ exit_status # <<0>>)
    /\ (FetchFailures # {}) ~>
          (/\ pc = "exited"
           /\ exit_status # <<>>
           /\ exit_status[1] # 0
           /\ \A i \in FetchFailures : \E j \in (i + 1)..Len(log) : log[j].ev = "message")

\* the first LEHD request failed, and the run has ended with status 1
C8_Witness ==
    /\ script = "lehd"
    /\ pc = "exited"
    /\ exit_status = <<1>>
    /\ Logged("error", <<"fetch_lodes", YEAR_PRE>>)
    /\ Logged("message", <<"Failed to fetch LEHD data">>)

\* C9: a call of fetch_lodes that ends in an error returns None, whatever it had
\* kept: the table of that year stays None, and nothing of that year is analysed or
\* written.
C9_NoPartialResult ==
    script = "lehd" =>
        \A y \in Years :
            Logged("error", <<"fetch_lodes", y>>) =>
                /\ df[y].none
                /\ df[y].rows = <<>>
                /\ results[y] = <<>>
                /\ origins[y] = <<>>
                /\ \A i \in 1..Len(written) : written[i].file # LehdFile(y)

\* the reader failed in the second call after rows had been kept, and the call has returned
C9_Witness ==
    /\ script = "lehd"
    /\ pc = "check"
    /\ Logged("error", <<"fetch_lodes", YEAR_POST>>)
    /\ chunks # <<>>
    /\ df[YEAR_POST].none

\* C10: no resource is requested twice in a run.
C10_NoRetry ==
    \A i, j \in 1..Len(log) :
        (i < j /\ log[i].ev = "request" /\ log[j].ev = "request") => log[i].what # log[j].what

\* the first LEHD request failed and the second was still made, each once
C10_Witness ==
    /\ script = "lehd"
    /\ pc = "exited"
    /\ Logged("error", <<"fetch_lodes", YEAR_PRE>>)
    /\ Logged("request", LodesUrl(YEAR_PRE))
    /\ Logged("request", LodesUrl(YEAR_POST))

\* a row as the reader delivered it: without the columns the script adds
Raw(r) == [w_geocode |-> r.w_geocode, h_geocode |-> r.h_geocode, S000 |-> r.S000]

\* the rows of a table as the reader delivered them
RawRows(t) == [i \in 1..Len(t) |-> Raw(t[i])]

\* the workplace tract of the row, exactly as listed, is a Berkeley tract
WorksInBerkeley(r) == Member(FirstChars(r.w_geocode, 11), berkeley_tracts)

\* C11: at every point of fetch_lodes the list `chunks` holds no empty chunk and only
\* rows whose w_tract is in the allow-list; what it holds is exactly the passing rows of
\* what the reader has delivered so far, in the reader's order, so a row that does not
\* pass is held nowhere once its chunk has been processed.
C11_FilteredBeforeKept ==
    script = "lehd" =>
        /\ \A i \in 1..Len(chunks) :
              /\ chunks[i] # <<>>
              /\ AllRows(chunks[i], LAMBDA r : Member(r.w_tract, berkeley_tracts))
        /\ RawRows(Concat(chunks)) = SelectSeq(fileRows, WorksInBerkeley)

\* in the first call the reader has delivered a chunk that was dropped whole, then a
\* chunk that was kept
C11_Witness ==
    /\ script = "lehd"
    /\ pc = "loop1"
    /\ Len(fileRows) = 2
    /\ ~WorksInBerkeley(fileRows[1])
    /\ Len(chunks) = 1
    /\ Concat(chunks) # <<>>

\* C12: the geographic filter is idempotent: filtering what the filter returned gives
\* the same rows in the same order.  Said of fetch_lodes' filter on the rows read so
\* far, on every chunk kept and on every table returned, and of the block-group filter
\* on bg_geo and on berkeley_bg.
C12_FilterIdempotent ==
    /\ script = "lehd" =>
         /\ BerkeleyChunk(BerkeleyChunk(fileRows)) = BerkeleyChunk(fileRows)
         /\ \A i \in 1..Len(chunks) : BerkeleyChunk(chunks[i]) = chunks[i]
         /\ \A y \in Years : BerkeleyChunk(df[y].rows) = df[y].rows
    /\ script = "bg" =>
         /\ BerkeleyBlockGroups(WithTractNum(BerkeleyBlockGroups(WithTractNum(bg_geo))))
               = BerkeleyBlockGroups(WithTractNum(bg_geo))
         /\ BerkeleyBlockGroups(WithTractNum(berkeley_bg)) = berkeley_bg

\* the second call has read a row that passes and a row that does not, and has returned
\* the one that passes
C12_Witness ==
    /\ script = "lehd"
    /\ pc = "check"
    /\ Len(fileRows) = 2
    /\ Len(BerkeleyChunk(fileRows)) = 1
    /\ Len(df[YEAR_POST].rows) = 1

\* the rows of t in the order p, a permutation of 1..Len(t)
Permute(t, p) == [i \in 1..Len(t) |-> t[p[i]]]

\* C13: the sums do not depend on the order of the rows: for every permutation of the
\* rows of a year's table, the total of S000 is the same, analyze_commutes returns the
\* total_jobs, same_tract, live_work_berkeley and commute_in it returned for the table,
\* and every county's total is the one top_origins computed.
C13_SumsIgnoreRowOrder ==
    script = "lehd" =>
        \A y \in Years :
            \A p \in Permutations(1..Len(df[y].rows)) :
                LET rows == df[y].rows
                    permuted == Permute(rows, p)
                IN  /\ SumS000(permuted) = SumS000(rows)
                    /\ results[y] # <<>> =>
                          LET res == results[y][1].res
                              again == analyze_commutes(permuted, y)
                          IN  /\ again.total_jobs = res.total_jobs
                              /\ again.same_tract = res.same_tract
                              /\ again.live_work_berkeley = res.live_work_berkeley
                              /\ again.commute_in = res.commute_in
                    /\ origins[y] # <<>> =>
                          \A i \in 1..Len(origins[y][1].county_totals) :
                              LET group == origins[y][1].county_totals[i]
                              IN  CountyTotal(permuted, group.h_county) = group.jobs

\* the 2019 table has two rows with different job counts and different home counties,
\* and both analyses have run on it
C13_Witness ==
    /\ script = "lehd"
    /\ results[YEAR_PRE] # <<>>
    /\ origins[YEAR_PRE] # <<>>
    /\ Len(df[YEAR_PRE].rows) = 2
    /\ df[YEAR_PRE].rows[1].S000 # df[YEAR_PRE].rows[2].S000
    /\ df[YEAR_PRE].rows[1].h_county # df[YEAR_PRE].rows[2].h_county

\* p is the beginning of s
IsPrefix(p, s) == Len(p) <= Len(s) /\ \A i \in 1..Len(p) : p[i] = s[i]

\* p is the first n characters of s when s has that many, and a beginning of s anyway
Truncated(p, s, n) == IsPrefix(p, s) /\ (Len(s) >= n => Len(p) = n)

\* C14: a derived code is the fixed-width beginning of the identifier: w_tract is the
\* first 11 characters of w_geocode (on every row the reader delivered and on every row
\* kept), h_tract the first 11 and h_county the first 5 of h_geocode, tract_num the
\* first 4 of TRACTCE, whenever the identifier is that long; and always a prefix of it.
C14_PrefixTruncation ==
    /\ script = "lehd" =>
         /\ \A i \in 1..Len(fileRows) :
               Truncated(WithWTract(fileRows)[i].w_tract, fileRows[i].w_geocode, 11)
         /\ \A y \in Years :
               AllRows(Concat(chunks) \o df[y].rows, LAMBDA r :
                  /\ Truncated(r.w_tract, r.w_geocode, 11)
                  /\ "h_tract" \in DOMAIN r => Truncated(r.h_tract, r.h_geocode, 11)
                  /\ "h_county" \in DOMAIN r => Truncated(r.h_county, r.h_geocode, 5))
    /\ script = "bg" =>
         AllRows(bg_geo \o berkeley_bg, LAMBDA r :
            "tract_num" \in DOMAIN r => Truncated(r.tract_num, r.TRACTCE, 4))

\* both tables have their h_tract and h_county, and a row of 2021 has a home identifier
\* of 14 characters
C14_Witness ==
    /\ script = "lehd"
    /\ pc = "save1"
    /\ \E i \in 1..Len(df[YEAR_POST].rows) :
          /\ Len(df[YEAR_POST].rows[i].h_geocode) = 14
          /\ Len(df[YEAR_POST].rows[i].h_tract) = 11
          /\ Len(df[YEAR_POST].rows[i].h_county) = 5

\* C15: an identifier shorter than the width passes through unmodified and is never
\* retained: a w_geocode of fewer than 11 characters gets itself as w_tract, and no row
\* kept or returned by fetch_lodes has one; a TRACTCE of fewer than 4 characters gets
\* itself as tract_num, and no row of berkeley_bg has one.
C15_ShortIdentifierDropped ==
    /\ script = "lehd" =>
         /\ \A i \in 1..Len(fileRows) :
               Len(fileRows[i].w_geocode) < 11 =>
                   WithWTract(fileRows)[i].w_tract = fileRows[i].w_geocode
         /\ \A y \in Years :
               AllRows(Concat(chunks) \o df[y].rows, LAMBDA r : Len(r.w_geocode) >= 11)
    /\ script = "bg" =>
         /\ AllRows(bg_geo, LAMBDA r :
               ("tract_num" \in DOMAIN r /\ Len(r.TRACTCE) < 4) => r.tract_num = r.TRACTCE)
         /\ AllRows(berkeley_bg, LAMBDA r : Len(r.TRACTCE) >= 4)

\* the second call has read a row with a workplace identifier of 10 characters, the
\* beginning of a listed tract, and has dropped it
C15_Witness ==
    /\ script = "lehd"
    /\ pc = "loop2"
    /\ Len(fileRows) = 1
    /\ Len(fileRows[1].w_geocode) = 10
    /\ \E i \in 1..Len(berkeley_tracts) : IsPrefix(fileRows[1].w_geocode, berkeley_tracts[i])
    /\ chunks = <<>>

\* a and b are the same string: the same length and the same characters
StringEqual(a, b) == Len(a) = Len(b) /\ \A i \in 1..Len(a) : a[i] = b[i]

\* x is string-equal to an entry of the list
ExactlyListed(x, list) == \E i \in 1..Len(list) : StringEqual(x, list[i])

\* C16: the allow-list is static and matched exactly.  Throughout the LEHD run the name
\* berkeley_tracts is bound to the list of lines 34-39 (in the block-group script, from
\* its assignment on, to '4220'..'4240'); every row kept or returned by fetch_lodes has
\* a w_tract string-equal to an entry, every row of berkeley_bg a tract_num string-equal
\* to an entry, and live_work_berkeley counts exactly the rows whose h_tract is
\* string-equal to an entry.
C16_StaticExactAllowList ==
    /\ script = "lehd" =>
         /\ allow_list = berkeley_tracts
         /\ \A y \in Years :
               /\ AllRows(Concat(chunks) \o df[y].rows,
                          LAMBDA r : ExactlyListed(r.w_tract, berkeley_tracts))
               /\ results[y] # <<>> =>
                     results[y][1].res.live_work_berkeley
                        = SumS000(SelectSeq(df[y].rows,
                              LAMBDA r : ExactlyListed(r.h_tract, berkeley_tracts)))
    /\ script = "bg" =>
         /\ allow_list = (IF Logged("filter", <<"berkeley_bg">>)
                          THEN bg_berkeley_tracts ELSE <<>>)
         /\ AllRows(berkeley_bg, LAMBDA r : ExactlyListed(r.tract_num, bg_berkeley_tracts))

\* the LEHD run has ended normally; some worker of 2021 lives in Berkeley and some
\* worker of 2019 does not
C16_Witness ==
    /\ script = "lehd"
    /\ pc = "exited"
    /\ exit_status = <<0>>
    /\ results[YEAR_POST][1].res.live_work_berkeley > 0
    /\ results[YEAR_PRE][1].res.commute_in > 0

\* the columns of a table as fetch_lodes returns it
FetchedColumns == {"w_geocode", "h_geocode", "S000", "w_tract"}

\* C17: a table is not changed after the fetch that returned it: every row of df_2019
\* and df_2021, and every row saved to a CSV, has exactly the columns fetch_lodes
\* returned it with.
C17_TablesImmutable ==
    script = "lehd" =>
        /\ \A y \in Years : AllRows(df[y].rows, LAMBDA r : DOMAIN r = FetchedColumns)
        /\ \A i \in 1..Len(written) :
              AllRows(written[i].rows, LAMBDA r : DOMAIN r = FetchedColumns)

\* x is a number of one decimal, the nearest to 100 * num / den (den > 0)
NearestTenth(x, num, den) ==
    /\ x.k = "fin"
    /\ x.d = 10
    /\ LET diff == x.n * den - 1000 * num
       IN  2 * (IF diff < 0 THEN -diff ELSE diff) <= den

\* C18: for every station, Loss = Ridership_2019 - Ridership_2024, Pct_Loss is Loss as
\* a percentage of Ridership_2019 to one decimal, Retention is 100 - Pct_Loss, so the
\* two add up to 100; and both lie in [0, 100] when 0 <= Ridership_2024 <=
\* Ridership_2019 and Ridership_2019 > 0.
C18_StationDeltaAndRetention ==
    script = "station" =>
        AllRows(stations, LAMBDA r :
            /\ r.Loss = r.Ridership_2019 - r.Ridership_2024
            /\ r.Ridership_2019 > 0 =>
                  NearestTenth(r.Pct_Loss, r.Ridership_2019 - r.Ridership_2024, r.Ridership_2019)
            /\ r.Retention.k = "fin"
            /\ r.Retention.n * r.Pct_Loss.d + r.Pct_Loss.n * r.Retention.d
                  = 100 * r.Retention.d * r.Pct_Loss.d
            /\ (0 <= r.Ridership_2024 /\ r.Ridership_2024 <= r.Ridership_2019
                   /\ r.Ridership_2019 > 0)
                  => Percentage(r.Pct_Loss) /\ Percentage(r.Retention))

\* the metrics of the three stations are computed: Downtown Berkeley lost 7396 of
\* 11566 riders, 63.9 per cent, and kept 36.1 per cent
C18_Witness ==
    /\ script = "station"
    /\ Len(stations) = 3
    /\ stations[1].Loss = 7396
    /\ stations[1].Pct_Loss = Fin(639, 10)
    /\ stations[1].Retention = Fin(361, 10)

\* the route has a trip in trips.txt that stops at a stop inside the Berkeley area
ServesBerkeley(route_id) ==
    \E i \in 1..Len(trips), j \in 1..Len(AcStopTimes), k \in 1..Len(AcStops) :
        /\ trips[i].route_id = route_id
        /\ AcStopTimes[j].trip_id = trips[i].trip_id
        /\ AcStops[k].stop_id = AcStopTimes[j].stop_id
        /\ 3785 <= AcStops[k].stop_lat /\ AcStops[k].stop_lat <= 3788
        /\ -12230 <= AcStops[k].stop_lon /\ AcStops[k].stop_lon <= -12225

\* the route has a trip in trips.txt with a shape of at least two points
HasDrawableShape(route_id) ==
    \E i \in 1..Len(trips) :
        /\ trips[i].route_id = route_id
        /\ Cardinality({ j \in 1..Len(AcShapes) : AcShapes[j].shape_id = trips[i].shape_id }) >= 2

\* C19: when the route loop is over, every route with a trip stopping inside the
\* Berkeley area and with a shape of at least two points has a trace in the figure.
C19_EveryBerkeleyRouteTraced ==
    (script = "ac" /\ pc \in {"ac_loop", "exited"} /\ route_pos > Len(RoutesConsidered)) =>
        \A i \in 1..Len(AcRoutes) :
            (ServesBerkeley(AcRoutes[i].route_id) /\ HasDrawableShape(AcRoutes[i].route_id))
                => \E j \in 1..Len(fig) : fig[j].route_id = AcRoutes[i].route_id

\* sum(breakdown['Riders'])
RECURSIVE SumRiders(_)
SumRiders(t) == IF t = <<>> THEN 0 ELSE Head(t).Riders + SumRiders(Tail(t))

\* C20: the number of returners who were former transit riders that the script
\* computes is 59,000, the total of the annotation and the sum of the Riders column.
C20_FormerTransitReturners ==
    (script = "returner" /\ returners_former_transit # <<>>) =>
        /\ returners_former_transit[1] = 59000
        /\ returners_former_transit[1] = AnnotatedTotal
        /\ returners_former_transit[1] = SumRiders(Breakdown)

C22_PctCommuteInGuarded ==
    script = "lehd" =>
        \A y \in Years :
            results[y] # <<>> =>
                LET res == results[y][1].res
                IN  /\ res.pct_commute_in.k = "fin"
                    /\ IF res.total_jobs = 0
                       THEN res.pct_commute_in.n = 0
                       ELSE res.pct_commute_in.n * res.total_jobs
                               = 100 * res.commute_in * res.pct_commute_in.d

\* the 2019 table has no job at all, the 2021 table has jobs, some of them of commuters
C22_Witness ==
    /\ script = "lehd"
    /\ results[YEAR_PRE] # <<>>
    /\ results[YEAR_PRE][1].res.total_jobs = 0
    /\ results[YEAR_POST][1].res.total_jobs > 0
    /\ results[YEAR_POST][1].res.commute_in > 0

\* the run has computed a metric or written a file
AnalysisStarted == \E i \in 1..Len(log) : log[i].ev \in {"metrics", "write"}

\* C23: an empty filter result is treated like a failure.  Every table fetch_lodes
\* returns has at least one row; after a call that read its file without error and
\* kept no row, that year's table is None, the run computes nothing, writes nothing and
\* does not exit 0, and when it has exited its status is 1; the analysis runs only when
\* both tables have at least one row.
C23_EmptyResultIsFailure ==
    script = "lehd" =>
        /\ \A y \in Years : ~df[y].none => Len(df[y].rows) >= 1
        /\ \A y \in JustReturned : (SelectSeq(fileRows, WorksInBerkeley) = <<>>) => df[y].none
        /\ Logged("message", <<"No Berkeley jobs found">>) =>
              /\ ~AnalysisStarted
              /\ exit_status # <<0>>
              /\ pc = "exited" => exit_status = <<EXIT_FAILURE>>
        /\ AnalysisStarted => \A y \in Years : Len(df[y].rows) >= 1

\* both files were read without error, the 2021 file held no matching row, and the run
\* has exited with status 1
C23_Witness ==
    /\ script = "lehd"
    /\ pc = "exited"
    /\ exit_status = <<1>>
    /\ Logged("message", <<"No Berkeley jobs found">>)
    /\ Logged("message", <<"Found">>)
    /\ \A i \in 1..Len(log) : log[i].ev # "error"

\* C24: analyze_commutes returns 0 <= same_tract <= live_work_berkeley <= total_jobs.
C24_CountsNested ==
    script = "lehd" =>
        \A y \in Years :
            results[y] # <<>> =>
                LET res == results[y][1].res
                IN  /\ 0 <= res.same_tract
                    /\ res.same_tract <= res.live_work_berkeley
                    /\ res.live_work_berkeley <= res.total_jobs

\* in the 2021 table some workers live in their workplace tract and others commute in
C24_Witness ==
    /\ script = "lehd"
    /\ results[YEAR_POST] # <<>>
    /\ results[YEAR_POST][1].res.same_tract > 0
    /\ results[YEAR_POST][1].res.live_work_berkeley < results[YEAR_POST][1].res.total_jobs

\* the run has failed: it has ended with a status other than 0
RunFailed == pc = "exited" /\ exit_status # <<0>>

\* C25: a run that fails at some stage has written no output file.
C25_NoPartialArtifacts == RunFailed => written = <<>>

\* the 6-digit tract code of an 11-digit code: what follows state and county
TractCodeOf(code) == SubSeq(code, 6, 11)

\* the LEHD tracts as rows of the block-group script's bg_geo
LehdTractsAsBlockGroups ==
    [i \in 1..Len(berkeley_tracts) |->
        [COUNTYFP |-> SubSeq(berkeley_tracts[i], 3, 5), TRACTCE |-> TractCodeOf(berkeley_tracts[i])]]

\* C26: the two scripts use the same study area: once the block-group script has its
\* list, the list is exactly the 21 codes '4220'..'4240', and its Berkeley filter
\* keeps every tract of the LEHD script's berkeley_tracts.
C26_SameStudyArea ==
    (script = "bg" /\ allow_list # <<>>) =>
        /\ Len(allow_list) = 21
        /\ \A k \in 0..20 :
              \E i \in 1..Len(allow_list) :
                  allow_list[i] = <<4, 2, (20 + k) \div 10, (20 + k) % 10>>
        /\ BerkeleyBlockGroups(WithTractNum(LehdTractsAsBlockGroups))
              = WithTractNum(LehdTractsAsBlockGroups)

\* the sum of the printed percentages as a fraction [n, d]; needs every one finite
RECURSIVE SumPct(_)
SumPct(printed) ==
    IF printed = <<>> THEN [n |-> 0, d |-> 1]
    ELSE LET rest == SumPct(Tail(printed))
             x == Head(printed).pct
         IN  [n |-> x.n * rest.d + rest.n * x.d, d |-> x.d * rest.d]

\* the county codes top_origins has a name for
NamedCounties ==
    {<<0,6,0,0,1>>, <<0,6,0,1,3>>, <<0,6,0,7,5>>, <<0,6,0,8,1>>, <<0,6,0,8,5>>, <<0,6,0,9,7>>, <<0,6,0,9,5>>}

\* what top_origins reports of table t, apart from the percentages
ReportedOrigins(o, t) ==
    /\ Len(o.printed) <= TopN
    /\ Len(o.printed) <= Len(o.county_totals)
    /\ \A i \in 1..Len(o.county_totals) :
          /\ \E j \in 1..Len(t) : o.county_totals[i].h_county = FirstChars(t[j].h_geocode, 5)
          /\ o.county_totals[i].jobs =
                SumS000(SelectSeq(t, LAMBDA r : FirstChars(r.h_geocode, 5) = o.county_totals[i].h_county))
    /\ \A i, j \in 1..Len(o.county_totals) :
          i < j => /\ o.county_totals[i].jobs >= o.county_totals[j].jobs
                   /\ o.county_totals[i].h_county # o.county_totals[j].h_county
    /\ \A i \in 1..Len(o.printed) :
          /\ o.printed[i].jobs = o.county_totals[i].jobs
          /\ o.county_totals[i].h_county \notin NamedCounties =>
                o.printed[i].name = <<"County ", o.county_totals[i].h_county>>

\* every reported percentage is jobs / total * 100, and they sum to at most 100
ReportedPercentages(o, t) ==
    /\ \A i \in 1..Len(o.printed) :
          /\ o.printed[i].pct.k = "fin"
          /\ o.printed[i].pct.n * SumS000(t) = 100 * o.printed[i].jobs * o.printed[i].pct.d
    /\ SumPct(o.printed).n <= 100 * SumPct(o.printed).d

\* C27: top_origins reports at most n counties, keyed by the first 5 characters of
\* h_geocode, in non-increasing order of summed jobs; each percentage is the county's
\* jobs over the table's total jobs, the percentages sum to at most 100, and a county
\* code without a known name is reported as "County <code>".
C27_TopOriginsReport ==
    \A y \in Years :
        origins[y] # <<>> =>
            /\ ReportedOrigins(origins[y][1], df[y].rows)
            /\ ReportedPercentages(origins[y][1], df[y].rows)

\* the points (year, value) of a trace
Points(trace) == { <<trace.x[k], trace.y[k]>> : k \in 1..Len(trace.x) }

\* the trace holds exactly the rows of table t with Year <= y, one point per row
HoldsRowsUpTo(trace, t, y) ==
    /\ Len(trace.x) = Len(trace.y)
    /\ Points(trace) = { <<t[j].Year, t[j].Ridership>> : j \in { j \in 1..Len(t) : t[j].Year <= y } }
    /\ Len(trace.x) = Cardinality({ j \in 1..Len(t) : t[j].Year <= y })

\* the frame loop has ended
FramesBuilt == script = "anim" /\ pc \in {"anim_write", "exited"}

\* C28: the animation has one frame per distinct year of the two tables, in ascending
\* order; the frame of year y holds exactly the rows with Year <= y of each table, so
\* each frame extends the one before; the frame of 2018 has no AC Transit point, the
\* last frame equals the full initial traces, and the slider has one step per frame
\* with the last step active.
C28_FramesPerYear ==
    script = "anim" =>
        /\ \A i \in 1..Len(years) : \A j \in 1..Len(years) : i < j => years[i] < years[j]
        /\ { years[i] : i \in 1..Len(years) }
             = { bart_data[i].Year : i \in 1..Len(bart_data) }
               \cup { ac_transit_data[i].Year : i \in 1..Len(ac_transit_data) }
        /\ Len(frames) <= Len(years)
        /\ \A i \in 1..Len(frames) :
              /\ frames[i].name = Str(years[i])
              /\ HoldsRowsUpTo(frames[i].data[1], bart_data, years[i])
              /\ HoldsRowsUpTo(frames[i].data[2], ac_transit_data, years[i])
              /\ i > 1 => \A t \in 1..2 :
                    /\ IsPrefix(frames[i - 1].data[t].x, frames[i].data[t].x)
                    /\ IsPrefix(frames[i - 1].data[t].y, frames[i].data[t].y)
              /\ years[i] = 2018 => frames[i].data[2].x = <<>>
        /\ FramesBuilt =>
              /\ Len(frames) = Len(years)
              /\ frames[1].name = <<2, 0, 1, 8>>
              /\ frames[Len(frames)].data = anim_fig.data
        /\ anim_fig.sliders # <<>> =>
              /\ anim_fig.frames = frames
              /\ Len(anim_fig.sliders[1].steps) = Len(frames)
              /\ anim_fig.sliders[1].active = Len(frames) - 1
              /\ \A i \in 1..Len(frames) :
                    /\ anim_fig.sliders[1].steps[i].args = frames[i].name
                    /\ anim_fig.sliders[1].steps[i].label = Str(years[i])

C28_Witness ==
    /\ script = "anim"
    /\ pc = "exited"
    /\ exit_status = <<0>>
    /\ Len(anim_fig.frames) = 7
    /\ Len(anim_fig.frames[1].data[1].x) = 1
    /\ Len(anim_fig.sliders[1].steps) = 7

\* sum(changed_patterns['Estimated_Riders'])
RECURSIVE SumEstimated(_)
SumEstimated(t) == IF t = <<>> THEN 0 ELSE Head(t).Estimated_Riders + SumEstimated(Tail(t))

\* C30: for every year of wfh_data, New_WFH_vs_2019 + Returned_vs_Peak = 940,000, the
\* peak less the 2019 baseline; for 2023 that is 490,000 still at home and 450,000
\* returned, which is the 52% / 48% split of the caption and the returners_total of the
\* returner analysis; the changed-pattern categories sum to 20,000, with shares
\* 40/20/15/15/10 percent.
C30_RemoteWorkBookkeeping ==
    (script = "wfh" /\ wfh_data # <<>>) =>
        /\ Len(wfh_data) = 5
        /\ \A i \in 1..Len(wfh_data) :
              /\ wfh_data[i].New_WFH_vs_2019 + wfh_data[i].Returned_vs_Peak = 940000
              /\ wfh_data[i].Year = 2023 =>
                    /\ wfh_data[i].New_WFH_vs_2019 = 490000
                    /\ wfh_data[i].Returned_vs_Peak = 450000
                    /\ wfh_data[i].Returned_vs_Peak = returners_total
                    /\ RoundHalfEven(100 * wfh_data[i].New_WFH_vs_2019, 940000) = 52
                    /\ RoundHalfEven(100 * wfh_data[i].Returned_vs_Peak, 940000) = 48
        /\ \E i \in 1..Len(wfh_data) : wfh_data[i].Year = 2023
        /\ PeakWorkers - Baseline2019 = 940000
        /\ SumEstimated(changed_patterns) = 20000
        /\ wfh_fig # <<>> =>
              /\ Column(wfh_fig[1].patterns, "pct") = <<40, 20, 15, 15, 10>>
              /\ wfh_fig[1].caption.shares = Column(wfh_fig[1].patterns, "pct")
              /\ wfh_fig[1].caption.new_wfh = 940000
              /\ wfh_fig[1].caption.still_home_pct = 52
              /\ wfh_fig[1].caption.returned_pct = 48
              /\ wfh_fig[1].caption.changed_riders = SumEstimated(changed_patterns)

C30_Witness ==
    /\ script = "wfh"
    /\ pc = "exited"
    /\ exit_status = <<0>>
    /\ Len(wfh_data) = 5
    /\ wfh_fig # <<>>

\* the first shape_id that is not missing among the trips of the route
FirstShapeOf(route_id) ==
    LET own == { i \in 1..Len(trips) : trips[i].route_id = route_id /\ trips[i].shape_id # <<>> }
    IN  IF own = {} THEN <<>>
        ELSE trips[CHOOSE i \in own : \A j \in own : i <= j].shape_id

\* the points of the trace are the points of its shape, each once, by shape_pt_sequence
OrderedBySequence(trace) ==
    LET rows == { j \in 1..Len(AcShapes) : AcShapes[j].shape_id = trace.shape_id }
    IN  /\ Len(trace.lon) = Cardinality(rows)
        /\ Len(trace.lat) = Len(trace.lon)
        /\ \E place \in [1..Len(trace.lon) -> rows] :
              /\ \A k \in 1..Len(trace.lon) :
                    /\ AcShapes[place[k]].shape_pt_lon = trace.lon[k]
                    /\ AcShapes[place[k]].shape_pt_lat = trace.lat[k]
              /\ \A k, l \in 1..Len(trace.lon) :
                    k < l => AcShapes[place[k]].shape_pt_sequence
                                < AcShapes[place[l]].shape_pt_sequence

\* the place of a route in berkeley_route_ids (0 when it is not there)
PlaceOf(route_id) ==
    IF \E p \in 1..Len(berkeley_route_ids) : berkeley_route_ids[p] = route_id
    THEN CHOOSE p \in 1..Len(berkeley_route_ids) : berkeley_route_ids[p] = route_id
    ELSE 0

\* C29: at every point of the route loop: no shape_id is plotted twice, each route has
\* at most one trace and it is of its first shape_id, at most 30 routes have been
\* considered, every plotted shape has at least 2 points in shape_pt_sequence order,
\* and a route whose first shape was plotted for another route has no trace.
C29_RouteLoopInvariant ==
    (script = "ac" /\ pc \in {"ac_loop", "exited"}) =>
        /\ route_pos - 1 <= 30
        /\ \A i, j \in 1..Len(fig) :
              i # j => /\ fig[i].shape_id # fig[j].shape_id
                       /\ fig[i].route_id # fig[j].route_id
        /\ \A i \in 1..Len(fig) :
              /\ fig[i].shape_id = FirstShapeOf(fig[i].route_id)
              /\ fig[i].shape_id \in plotted_shapes
              /\ PlaceOf(fig[i].route_id) \in 1..(route_pos - 1)
              /\ Len(fig[i].lon) >= 2
              /\ OrderedBySequence(fig[i])
        /\ \A p, q \in 1..(route_pos - 1) :
              (/\ p < q /\ q <= Len(berkeley_route_ids)
               /\ FirstShapeOf(berkeley_route_ids[p]) = FirstShapeOf(berkeley_route_ids[q]))
                  => \A i \in 1..Len(fig) : fig[i].route_id # berkeley_route_ids[q]

C29_Witness ==
    /\ script = "ac"
    /\ pc = "exited"
    /\ exit_status = <<0>>
    /\ Len(berkeley_route_ids) = 31
    /\ route_pos - 1 = 30
    /\ Len(fig) = 28
    /\ Cardinality(plotted_shapes) = 29

====
